---- MODULE Spec2Model ----
(***************************************************************************)
(* A model of the message queue (os::rtos::Message_queue) and of the       *)
(* thread entry points (os::rtos::Thread) of the CMSIS++ RTOS.             *)
(*                                                                         *)
(* The queue storage is one flat region of cells: Msgs slots of MsgSize    *)
(* cells each, followed by the prev, next and priority arrays (one cell    *)
(* per element).  A cell holds an integer: a payload byte, an index, a     *)
(* priority or an address.  A free slot keeps the address of the next free *)
(* slot in its first cell, as the code does.                               *)
(***************************************************************************)
EXTENDS Integers, Sequences, FiniteSets, TLC

\* ------------------------------------------------------------------ bounds

\* Queue capacity N (msgs_) and message size M (msg_size_bytes_), in cells.
Msgs == 2
MsgSize == 2
\* Message priorities are 1..MaxPrio.
MaxPrio == 2
\* Signal flags are the bits 0..NSigBits-1; a mask is the set of its bits.
NSigBits == 2
\* The tick counter runs up to MaxTicks; timeouts are 0..MaxTimeout.
MaxTicks == 3
MaxTimeout == 2
\* The terminated list holds at most MaxExits entries.
MaxExits == 3

\* -------------------------------------------------------- program constants

nullptr == 0
no_index == 255
max_size == 65535
\* The address of the storage region handed in through the attributes.
queue_addr == 1000
\* The content of storage the program has not written yet.
Junk == 77

\* The application threads, and the value of "no thread".
Threads == {"t1", "t2"}
none == "none"

Slots == 0..(Msgs - 1)
Prios == 1..MaxPrio
\* The byte the callers fill their buffers with.
Bytes == {1}
\* The values threads pass to exit or return from their entry functions.
Values == {1, 2}
\* thread::priority_t: the levels the callers pass, with the two sentinels.
Priorities == {"none", "low", "normal", "high", "error"}
SigBits == 0..(NSigBits - 1)

\* ------------------------------------------------------------ storage layout

\* storage_size: msgs * (msg_size + 2 * sizeof(index_t) + sizeof(priority_t))
storage_size == Msgs * (MsgSize + 2 + 1)
\* Offsets of the three arrays that follow the payload area.
prev_array == Msgs * MsgSize
next_array == prev_array + Msgs
prio_array == next_array + Msgs

\* Address of slot i, and the slot index computed back from an address.
SlotAddr(i) == queue_addr + i * MsgSize
MsgIx(p) == (p - queue_addr) \div MsgSize
\* Offset in the region of an address.
Off(p) == p - queue_addr
\* The addresses of the slots.
SlotAddrs == {queue_addr + i * MsgSize : i \in 0..(Msgs - 1)}

VARIABLES
  mem,            \* the storage region: offset -> cell
  head,           \* head_
  first_free,     \* first_free_
  count,          \* count_
  send_list,      \* send_list_: the threads enrolled, oldest first
  receive_list,   \* receive_list_
  sched_state,    \* sched_state_ of each thread
  wakeup_reason,  \* wakeup_reason_ of each thread
  sig_mask,       \* sig_mask_ of each thread
  sched_prio,     \* prio_ of each thread
  func_result,    \* func_result_ of each thread
  terminated_list, \* the scheduler's list of terminated threads
  obj,            \* a second queue object, from construction to destruction
  os_idle,        \* the idle thread: where it is in os_idle, and its history
  pc,             \* where each thread is in its current call
  fr,             \* the call frame of each thread
  cur,            \* the thread that holds the processor inside a call
  isr,            \* the interrupt handler's call in progress, or NoIsr
  now,            \* Systick_clock::now ()
  ub,             \* "none", or how the program left defined behaviour
  arrival         \* history: the messages enqueued, in send order

qvars == <<mem, head, first_free, count, send_list, receive_list>>
\* The exit values, the terminated list, the second queue object and the
\* idle thread.
lvars == <<func_result, terminated_list, obj, os_idle>>
tvars == <<sched_state, wakeup_reason, sig_mask, sched_prio, lvars>>
vars == <<mem, head, first_free, count, send_list, receive_list, sched_state,
          wakeup_reason, sig_mask, sched_prio, func_result, terminated_list,
          obj, os_idle, pc, fr, cur, isr, now, ub, arrival>>

\* ------------------------------------------------------------ array access

Prev(m, i) == m[prev_array + i]
Next_(m, i) == m[next_array + i]
Prio(m, i) == m[prio_array + i]

\* The cells of slot i, as a sequence of MsgSize cells.
Payload(m, i) == [k \in 1..MsgSize |-> m[i * MsgSize + k - 1]]

\* ------------------------------------------------------------- free list

\* _init: the free list threads the slots in slot order; the address of the
\* next free slot is kept in the first cell of each slot, nullptr in the last.
FreeLinkNone(i) == nullptr
FreeLink(i) == IF i < Msgs - 1 THEN SlotAddr(i + 1) ELSE nullptr

InitLinks(m) ==
  [o \in DOMAIN m |->
     IF o < prev_array /\ o % MsgSize = 0 THEN FreeLink(o \div MsgSize)
     ELSE m[o]]

\* The slots on the free list that starts at address p, in list order.  The
\* walk gives up after fuel links, so a list that loops is longer than Msgs.
RECURSIVE FreeWalk(_, _, _)
FreeWalk(m, p, fuel) ==
  IF p = nullptr \/ fuel = 0 THEN <<>>
  ELSE IF Off(p) \notin 0..(prev_array - 1) THEN <<no_index>>
  ELSE <<MsgIx(p)>> \o FreeWalk(m, m[Off(p)], fuel - 1)

FreeList == FreeWalk(mem, first_free, Msgs + 1)

\* The slots of the ring, walking next from head, at most fuel of them.
RECURSIVE RingWalk(_, _, _, _)
RingWalk(m, hd, i, fuel) ==
  IF fuel = 0 \/ i \notin Slots THEN <<>>
  ELSE IF Next_(m, i) = hd THEN <<i>>
  ELSE <<i>> \o RingWalk(m, hd, Next_(m, i), fuel - 1)

Ring == IF head = no_index THEN <<>> ELSE RingWalk(mem, head, head, Msgs + 1)

\* ------------------------------------------------------------- _try_send

\* prio_array_[msg_ix] = mprio (line 1242).
SetPrio(m, msg_ix, mprio) == [m EXCEPT ![prio_array + msg_ix] = mprio]

\* The test that makes the new message the head (line 1258).
HigherThanHeadGe(mprio, hprio) == mprio >= hprio
HigherThanHead(mprio, hprio) == mprio > hprio

\* The test that moves the insertion point one message towards the head
\* (line 1268).
Advance(mprio, p) == mprio > p

\* The loop of lines 1268-1271.  In a well-formed ring it ends at the head
\* at the latest, whose priority is not lower; fuel only bounds the
\* evaluation.
RECURSIVE WalkBack(_, _, _, _)
WalkBack(m, ix, mprio, fuel) ==
  IF fuel > 0 /\ Advance(mprio, Prio(m, ix))
  THEN WalkBack(m, Prev(m, ix), mprio, fuel - 1)
  ELSE ix

\* The loop of lines 1268-1271 does not end: the head is not strictly higher
\* and after Msgs steps the walk still moves on.
RECURSIVE WalkSteps(_, _, _, _)
WalkSteps(m, ix, mprio, fuel) ==
  IF fuel = 0 THEN TRUE
  ELSE IF Advance(mprio, Prio(m, ix))
  THEN WalkSteps(m, Prev(m, ix), mprio, fuel - 1)
  ELSE FALSE

WalkHangs(m, hd, mprio) ==
  /\ hd # no_index
  /\ ~HigherThanHead(mprio, Prio(m, hd))
  /\ WalkSteps(m, Prev(m, hd), mprio, Msgs)

\* The head after the insertion of slot msg_ix (lines 1244-1263).
NewHeadKeep(m, hd, msg_ix, mprio) == IF hd = no_index THEN msg_ix ELSE hd
NewHead(m, hd, msg_ix, mprio) ==
  IF hd = no_index THEN msg_ix
  ELSE IF HigherThanHead(mprio, Prio(m, hd)) THEN msg_ix ELSE hd

\* The storage after slot msg_ix is linked into the ring (lines 1244-1280);
\* m has the priority of the message in place already.
Link(m, hd, msg_ix, mprio) ==
  IF hd = no_index
  THEN [m EXCEPT ![prev_array + msg_ix] = msg_ix,
                 ![next_array + msg_ix] = msg_ix]
  ELSE LET tail == Prev(m, hd)
           ix == IF HigherThanHead(mprio, Prio(m, hd)) THEN tail
                 ELSE WalkBack(m, tail, mprio, Msgs)
           tmp_ix == Next_(m, ix)
       IN [m EXCEPT ![prev_array + msg_ix] = ix,
                     ![next_array + msg_ix] = tmp_ix,
                     ![next_array + ix] = msg_ix,
                     ![prev_array + tmp_ix] = msg_ix]

\* memcpy (dest, msg, nbytes) of a buffer whose bytes are all b, and the
\* memset of the rest of the slot (lines 1286-1292).
ZeroFill(n) == IF n < MsgSize THEN n..(MsgSize - 1) ELSE {}

CopyIn(m, dest, b, n) ==
  [o \in DOMAIN m |->
     IF o - Off(dest) \in 0..(n - 1) THEN b
     ELSE IF o - Off(dest) \in ZeroFill(n) THEN 0
     ELSE m[o]]

\* ----------------------------------------------------------- _try_receive

\* memcpy (msg, src, nbytes): the caller's buffer afterwards.
CopyOut(m, src, n) == [k \in 1..n |-> m[Off(src) + k - 1]]

\* *mprio = prio_array_[head_] (line 1585), read outside the critical
\* sections: when head_ is no_index by then, the read is out of the array
\* and yields any value.
PrioRead(m, hd) == IF hd \in Slots THEN {Prio(m, hd)} ELSE (0..MaxPrio) \cup {Junk}

\* The storage and head after the head is taken out of the ring
\* (lines 1591-1604); UnlinkOneWay leaves out the assignment of line 1594.
UnlinkOneWay(m, hd, cnt) ==
  IF cnt > 1
  THEN LET m2 == [m EXCEPT ![next_array + Prev(m, hd)] = Next_(m, hd)]
       IN [mem |-> m2, head |-> Next_(m2, hd)]
  ELSE [mem |-> m, head |-> no_index]
Unlink(m, hd, cnt) ==
  IF cnt > 1
  THEN LET m1 == [m EXCEPT ![prev_array + Next_(m, hd)] = Prev(m, hd)]
           m2 == [m1 EXCEPT ![next_array + Prev(m1, hd)] = Next_(m1, hd)]
       IN [mem |-> m2, head |-> Next_(m2, hd)]
  ELSE [mem |-> m, head |-> no_index]

\* push_front of the block at src on the free list (lines 1611-1614).
PushFreeLost(m, src, ff) == [mem |-> m, first_free |-> ff]
PushFree(m, src, ff) ==
  [mem |-> [m EXCEPT ![Off(src)] = ff], first_free |-> src]

\* ------------------------------------------------------- threads, wait lists

\* port::Thread::wakeup: a suspended thread becomes ready.
WakeState(st) == IF st = "suspended" THEN "ready" ELSE st

\* port::Thread::suspend: the thread becomes suspended.
PortSuspend(st) == "suspended"

\* Waiting_threads_list::wakeup_all and wakeup_one: the threads woken.
WakeupAllOf(list) == {list[k] : k \in 1..Len(list)}
WakeupOneOf(list) == IF list = <<>> THEN {} ELSE {Head(list)}

\* The threads _try_send wakes (line 1298) and those _try_receive wakes
\* (line 1623).
SendWakes(list) == WakeupOneOf(list)
ReceiveWakesAll(list) == WakeupAllOf(list)
ReceiveWakes(list) == WakeupOneOf(list)

\* The list without the threads of W (the woken nodes are detached; the
\* guard's destructor unlinks the node of its thread).
Detach(list, W) == SelectSeq(list, LAMBDA u : u \notin W)

\* sched_state_ and wakeup_reason_ after Thread::wakeup of the threads of W.
Woken(W) ==
  [u \in Threads |->
     IF u \in W THEN WakeState(sched_state[u]) ELSE sched_state[u]]
Reasons(W) == [u \in Threads |-> IF u \in W THEN "ok" ELSE wakeup_reason[u]]

\* The end of the block that holds the guard (lines 1383, 1548, 1702, 1880):
\* the list once the thread runs again after its suspension.
GuardKept(list, t) == list
GuardEnd(list, t) == Detach(list, {t})

\* Thread::interrupted.
interrupted(t) == FALSE

\* --------------------------------------------------------------- frames

SendOps == {"send", "try_send", "timed_send"}
RecvOps == {"receive", "try_receive", "timed_receive"}
TimedOps == {"timed_send", "timed_receive", "timed_sig_wait"}
TryOps == {"try_send", "try_receive"}
SigWaitOps == {"sig_wait", "try_sig_wait", "timed_sig_wait"}

\* A set of signal flags (sigset_t) is the set of its bits; 0 is {}.
Masks == SUBSET SigBits
\* flags::mode_t is the set of its bits, of all, any and clear.
Modes == SUBSET {"all", "any", "clear"}
\* The modes the callers pass: all or any, with or without clear.
WaitModes == {{"all"}, {"any"}, {"all", "clear"}, {"any", "clear"}}
\* What the variable a caller passes as oflags holds before the call.
Stale == {-1}

NoFrame ==
  [op |-> "none", b |-> 0, nbytes |-> 0, mprio |-> 0,
   ptr |-> nullptr, timeout |-> 0, start |-> 0, slept |-> 0, until |-> 0,
   buf |-> <<>>, oprio |-> 0, res |-> "none",
   target |-> "none", mask |-> {}, mode |-> {}, oflags |-> Stale,
   ret |-> {}, blocked |-> FALSE,
   value |-> nullptr, was |-> "none", exit_ptr |-> FALSE, out |-> Junk,
   woken |-> {}]

NoIsr == [op |-> "none", nbytes |-> 0, buf |-> <<>>, oprio |-> 0,
          src |-> nullptr, res |-> "none",
          target |-> "none", mask |-> {}, oflags |-> Stale]

\* os_idle before it runs: the thread was created with the default priority
\* and has destroyed nobody.  node is the thread os_idle took off the list,
\* empty what it found when it last tested the list, reaped how often it
\* destroyed each thread.
NoIdle ==
  [pc |-> "start", prio |-> "normal", node |-> none, empty |-> FALSE,
   reaped |-> [t \in Threads |-> 0]]

\* The second queue object before its construction.
NoObject ==
  [state |-> "none", res |-> "none", msgs |-> 0, msg_size |-> 0,
   attr_addr |-> nullptr, size |-> 0, queue_addr |-> nullptr, flags |-> {},
   link |-> <<>>, first_free |-> nullptr, head |-> no_index, count |-> 0,
   prev_array |-> nullptr, next_array |-> nullptr, prio_array |-> nullptr,
   deleted |-> {}]

\* The lengths a caller may pass to send (nbytes <= msg_size_bytes_ is the
\* documented precondition) and the buffer sizes passed to receive.
SendLens == {0, MsgSize - 1, MsgSize}
RecvLens == {MsgSize - 1, MsgSize}
\* Whole messages only.
FullLens == {MsgSize}

\* os_assert_err (nbytes >= msg_size_bytes_, EMSGSIZE) of send, try_send and
\* timed_send.
SendLenOk(n) == n >= MsgSize

\* The argument checks of send, try_send, timed_send: the error returned, or
\* "none".  h: scheduler::in_handler_mode ().
SendCheck(h, op, nul, n) ==
  IF h /\ op # "try_send" THEN "EPERM"
  ELSE IF nul THEN "EINVAL"
  ELSE IF ~SendLenOk(n) THEN "EMSGSIZE"
  ELSE "none"

\* The argument checks of receive, try_receive, timed_receive.
RecvCheck(h, op, nul, n) ==
  IF h /\ op # "try_receive" THEN "EPERM"
  ELSE IF nul THEN "EINVAL"
  ELSE IF ~(n >= MsgSize) THEN "EMSGSIZE"
  ELSE IF ~(n <= max_size) THEN "EMSGSIZE"
  ELSE "none"

\* The check of reset.
ResetCheck(h) == IF h THEN "EPERM" ELSE "none"

\* if (timeout == 0) timeout = 1
Timeout(op, to) == IF op \in TimedOps THEN (IF to = 0 THEN 1 ELSE to) ELSE 0

\* ------------------------------------------------------------ scheduling

\* sq: calls run one at a time (a thread keeps the processor from the start
\* of a call until it returns or suspends).  Without sq a thread is preempted
\* anywhere outside a critical section.
CanRun(t, sq) ==
  /\ isr = NoIsr /\ ub = "none"
  /\ sched_state[t] = "ready"
  /\ sq => cur \in {none, t}

Hold(t, sq) == IF sq THEN t ELSE none

\* Where a failed attempt goes: the try variants return EAGAIN, timed ones
\* look at the clock, the others wait.
AfterFailWaits(op) ==
  IF op \in TryOps THEN "ret"
  ELSE IF op \in TimedOps THEN "time"
  ELSE IF op \in SigWaitOps THEN "susp"
  ELSE "enroll"
AfterFail(op) ==
  IF op \in TryOps \cup {"try_sig_wait"} THEN "ret"
  ELSE IF op \in TimedOps THEN "time"
  ELSE IF op \in SigWaitOps THEN "susp"
  ELSE "enroll"

Init ==
  /\ mem = InitLinks([o \in 0..(storage_size - 1) |-> Junk])
  /\ head = no_index
  /\ first_free = queue_addr
  /\ count = 0
  /\ send_list = <<>>
  /\ receive_list = <<>>
  /\ sched_state = [t \in Threads |-> "ready"]
  /\ wakeup_reason = [t \in Threads |-> "ok"]
  /\ sig_mask = [t \in Threads |-> {}]
  /\ sched_prio = [t \in Threads |-> "normal"]
  /\ func_result = [t \in Threads |-> nullptr]
  /\ terminated_list = <<>>
  /\ obj = NoObject
  /\ os_idle = NoIdle
  /\ pc = [t \in Threads |-> "idle"]
  /\ fr = [t \in Threads |-> NoFrame]
  /\ cur = none
  /\ isr = NoIsr
  /\ now = 0
  /\ ub = "none"
  /\ arrival = <<>>

\* ------------------------------------------------------------------ send

\* send, try_send, timed_send up to the first attempt.
CallSend(t, sq, ops, lens) ==
  /\ pc[t] = "idle" /\ CanRun(t, sq)
  /\ \E op \in ops, b \in Bytes, n \in lens, p \in Prios,
        to \in 0..MaxTimeout :
       /\ op \notin TimedOps => to = 0
       /\ ~SendLenOk(n) => p = 1
       /\ LET r == SendCheck(FALSE, op, FALSE, n) IN
          /\ fr' = [fr EXCEPT ![t] =
                      [NoFrame EXCEPT !.op = op, !.b = b,
                                      !.nbytes = n, !.mprio = p,
                                      !.timeout = Timeout(op, to),
                                      !.start = now, !.res = r]]
          /\ pc' = [pc EXCEPT ![t] = IF r = "none" THEN "try" ELSE "ret"]
  /\ cur' = Hold(t, sq)
  /\ UNCHANGED <<qvars, tvars, isr, now, ub, arrival>>

\* _try_send, first critical section (lines 1224-1284).  A first_free_ that
\* is not the address of a slot is dereferenced all the same, and a ring the
\* walk of lines 1268-1271 never leaves keeps the processor for ever.
TrySendLink(t, sq) ==
  /\ pc[t] = "try" /\ fr[t].op \in SendOps /\ CanRun(t, sq)
  /\ IF first_free = nullptr
     THEN /\ pc' = [pc EXCEPT ![t] = AfterFail(fr[t].op)]
          /\ fr' = [fr EXCEPT ![t].res =
                      IF fr[t].op \in TryOps THEN "EAGAIN" ELSE "none"]
          /\ UNCHANGED <<mem, head, first_free, count, ub, arrival>>
     ELSE IF first_free \notin SlotAddrs
     THEN /\ ub' = "wild"
          /\ UNCHANGED <<mem, head, first_free, count, pc, fr, arrival>>
     ELSE IF WalkHangs(SetPrio(mem, MsgIx(first_free), fr[t].mprio), head,
                       fr[t].mprio)
     THEN /\ ub' = "hang"
          /\ UNCHANGED <<mem, head, first_free, count, pc, fr, arrival>>
     ELSE LET dest == first_free
              msg_ix == MsgIx(dest)
              m1 == SetPrio(mem, msg_ix, fr[t].mprio)
          IN /\ first_free' = mem[Off(dest)]
             /\ mem' = Link(m1, head, msg_ix, fr[t].mprio)
             /\ head' = NewHead(m1, head, msg_ix, fr[t].mprio)
             /\ count' = count + 1
             /\ arrival' = Append(arrival,
                                  [ix |-> msg_ix, prio |-> fr[t].mprio])
             /\ fr' = [fr EXCEPT ![t].ptr = dest]
             /\ pc' = [pc EXCEPT ![t] = "copy"]
             /\ UNCHANGED ub
  /\ cur' = Hold(t, sq)
  /\ UNCHANGED <<send_list, receive_list, tvars, isr, now>>

\* _try_send, the copy into the slot (lines 1286-1292).
TrySendCopy(t, sq) ==
  /\ pc[t] = "copy" /\ fr[t].op \in SendOps /\ CanRun(t, sq)
  /\ mem' = CopyIn(mem, fr[t].ptr, fr[t].b, fr[t].nbytes)
  /\ pc' = [pc EXCEPT ![t] = "wake"]
  /\ cur' = Hold(t, sq)
  /\ UNCHANGED <<head, first_free, count, send_list, receive_list, tvars, fr,
                 isr, now, ub, arrival>>

\* _try_send, second critical section (lines 1294-1301): wake one receiver.
TrySendWake(t, sq) ==
  /\ pc[t] = "wake" /\ fr[t].op \in SendOps /\ CanRun(t, sq)
  /\ receive_list' = Detach(receive_list, SendWakes(receive_list))
  /\ sched_state' = Woken(SendWakes(receive_list))
  /\ wakeup_reason' = Reasons(SendWakes(receive_list))
  /\ fr' = [fr EXCEPT ![t].res = "ok"]
  /\ pc' = [pc EXCEPT ![t] = "ret"]
  /\ cur' = Hold(t, sq)
  /\ UNCHANGED <<mem, head, first_free, count, send_list, sig_mask,
                 sched_prio, lvars, isr, now, ub, arrival>>

\* --------------------------------------------------------------- receive

\* receive, try_receive, timed_receive up to the first attempt.
CallReceive(t, sq, ops, lens) ==
  /\ pc[t] = "idle" /\ CanRun(t, sq)
  /\ \E op \in ops, n \in lens, to \in 0..MaxTimeout :
       /\ op \notin TimedOps => to = 0
       /\ LET r == RecvCheck(FALSE, op, FALSE, n) IN
          /\ fr' = [fr EXCEPT ![t] =
                      [NoFrame EXCEPT !.op = op, !.nbytes = n,
                                      !.timeout = Timeout(op, to),
                                      !.start = now, !.res = r]]
          /\ pc' = [pc EXCEPT ![t] = IF r = "none" THEN "try" ELSE "ret"]
  /\ cur' = Hold(t, sq)
  /\ UNCHANGED <<qvars, tvars, isr, now, ub, arrival>>

\* _try_receive, first critical section (lines 1570-1579).
TryReceiveHead(t, sq) ==
  /\ pc[t] = "try" /\ fr[t].op \in RecvOps /\ CanRun(t, sq)
  /\ IF head = no_index
     THEN /\ pc' = [pc EXCEPT ![t] = AfterFail(fr[t].op)]
          /\ fr' = [fr EXCEPT ![t].res =
                      IF fr[t].op \in TryOps THEN "EAGAIN" ELSE "none"]
     ELSE /\ fr' = [fr EXCEPT ![t].ptr = SlotAddr(head)]
          /\ pc' = [pc EXCEPT ![t] = "copy"]
  /\ cur' = Hold(t, sq)
  /\ UNCHANGED <<qvars, tvars, isr, now, ub, arrival>>

\* _try_receive, the copy to the caller (lines 1581-1586).
TryReceiveCopy(t, sq) ==
  /\ pc[t] = "copy" /\ fr[t].op \in RecvOps /\ CanRun(t, sq)
  /\ \E op \in PrioRead(mem, head) :
       fr' = [fr EXCEPT ![t].buf = CopyOut(mem, fr[t].ptr, fr[t].nbytes),
                        ![t].oprio = op]
  /\ pc' = [pc EXCEPT ![t] = "unlink"]
  /\ cur' = Hold(t, sq)
  /\ UNCHANGED <<qvars, tvars, isr, now, ub, arrival>>

\* _try_receive, second critical section (lines 1588-1617).
TryReceiveUnlink(t, sq) ==
  /\ pc[t] = "unlink" /\ CanRun(t, sq)
  /\ LET u == Unlink(mem, head, count)
         f == PushFree(u.mem, fr[t].ptr, first_free)
     IN /\ mem' = f.mem
        /\ head' = u.head
        /\ first_free' = f.first_free
  /\ count' = count - 1
  /\ arrival' = SelectSeq(arrival, LAMBDA a : a.ix # MsgIx(fr[t].ptr))
  /\ pc' = [pc EXCEPT ![t] = "wake"]
  /\ cur' = Hold(t, sq)
  /\ UNCHANGED <<send_list, receive_list, tvars, fr, isr, now, ub>>

\* _try_receive, third critical section (lines 1619-1626): wake one sender.
TryReceiveWake(t, sq) ==
  /\ pc[t] = "wake" /\ fr[t].op \in RecvOps /\ CanRun(t, sq)
  /\ send_list' = Detach(send_list, ReceiveWakes(send_list))
  /\ sched_state' = Woken(ReceiveWakes(send_list))
  /\ wakeup_reason' = Reasons(ReceiveWakes(send_list))
  /\ fr' = [fr EXCEPT ![t].res = "ok"]
  /\ pc' = [pc EXCEPT ![t] = "ret"]
  /\ cur' = Hold(t, sq)
  /\ UNCHANGED <<mem, head, first_free, count, receive_list, sig_mask,
                 sched_prio, lvars, isr, now, ub, arrival>>

\* ------------------------------------------------------- waiting, returning

\* The wait list a call waits on.
OnSendList(op) == op \in SendOps

\* if (slept_ticks >= timeout) return ETIMEDOUT (lines 1536, 1868, 861).
ExpiredEarly(slept_ticks, timeout) == slept_ticks + 1 >= timeout
Expired(slept_ticks, timeout) == slept_ticks >= timeout

\* timed_send, timed_receive: the elapsed-ticks check after a failed attempt
\* (lines 1534-1539, 1866-1871).
TimeCheck(t, sq) ==
  /\ pc[t] = "time" /\ CanRun(t, sq)
  /\ LET slept_ticks == now - fr[t].start IN
     IF Expired(slept_ticks, fr[t].timeout)
     THEN /\ fr' = [fr EXCEPT ![t].res = "ETIMEDOUT"]
          /\ pc' = [pc EXCEPT ![t] = "ret"]
     ELSE /\ fr' = [fr EXCEPT ![t].slept = slept_ticks]
          /\ pc' = [pc EXCEPT ![t] =
                      IF fr[t].op \in SigWaitOps THEN "susp" ELSE "enroll"]
  /\ cur' = Hold(t, sq)
  /\ UNCHANGED <<qvars, tvars, isr, now, ub, arrival>>

\* Waiting_threads_list_guard, constructor: the node is linked at the end of
\* the list (lines 1379-1380, 1544-1545, 1698-1699, 1876-1877).
Enroll(t, sq) ==
  /\ pc[t] = "enroll" /\ CanRun(t, sq)
  /\ IF OnSendList(fr[t].op)
     THEN send_list' = Append(send_list, t) /\ UNCHANGED receive_list
     ELSE receive_list' = Append(receive_list, t) /\ UNCHANGED send_list
  /\ pc' = [pc EXCEPT ![t] = "susp"]
  /\ cur' = Hold(t, sq)
  /\ UNCHANGED <<mem, head, first_free, count, tvars, fr, isr, now, ub, arrival>>

\* this_thread::suspend (), or Systick_clock::wait (timeout - slept_ticks)
\* in the timed calls: the thread is suspended and gives up the processor.
Suspend(t, sq) ==
  /\ pc[t] = "susp" /\ CanRun(t, sq)
  /\ sched_state' = [sched_state EXCEPT ![t] = PortSuspend(sched_state[t])]
  /\ fr' = [fr EXCEPT ![t].until =
              IF fr[t].op \in TimedOps
              THEN now + (fr[t].timeout - fr[t].slept) ELSE 0]
  /\ pc' = [pc EXCEPT ![t] = "wait"]
  /\ cur' = none
  /\ UNCHANGED <<qvars, wakeup_reason, sig_mask, sched_prio, lvars,
                 isr, now, ub, arrival>>

\* The thread runs again: the guard's destructor unlinks the node if it is
\* still linked, then the loop tests interrupted () and tries again
\* (lines 1383-1389).
Resume(t, sq) ==
  /\ pc[t] = "wait" /\ CanRun(t, sq)
  /\ IF OnSendList(fr[t].op)
     THEN send_list' = GuardEnd(send_list, t) /\ UNCHANGED receive_list
     ELSE receive_list' = GuardEnd(receive_list, t) /\ UNCHANGED send_list
  /\ IF interrupted(t)
     THEN /\ fr' = [fr EXCEPT ![t].res = "EINTR"]
          /\ pc' = [pc EXCEPT ![t] = "ret"]
     ELSE /\ pc' = [pc EXCEPT ![t] = "try"]
          /\ UNCHANGED fr
  /\ cur' = Hold(t, sq)
  /\ UNCHANGED <<mem, head, first_free, count, tvars, isr, now, ub, arrival>>

\* The call returns to the application; fr[t].res and the out parameters
\* are what the caller sees.
Return(t, sq) ==
  /\ pc[t] = "ret" /\ CanRun(t, sq)
  /\ pc' = [pc EXCEPT ![t] = "idle"]
  /\ fr' = [fr EXCEPT ![t] = NoFrame]
  /\ cur' = none
  /\ UNCHANGED <<qvars, tvars, isr, now, ub, arrival>>

\* ----------------------------------------------------------------- reset

\* The free list after _init, given the storage.
InitFirstFreeNone == nullptr
InitFirstFree == queue_addr

\* head_ after _init (line 1194).
InitHeadKeep(hd) == hd
InitHead(hd) == no_index

\* reset (lines 1906-1925) with _init (lines 1173-1214), one critical section.
\* The frame keeps the threads the call has woken.
Reset(t, sq) ==
  /\ pc[t] = "idle" /\ CanRun(t, sq)
  /\ ResetCheck(FALSE) = "none"
  /\ count' = 0
  /\ mem' = InitLinks(mem)
  /\ first_free' = InitFirstFree
  /\ head' = InitHead(head)
  /\ send_list' = <<>>
  /\ receive_list' = <<>>
  /\ LET W == WakeupAllOf(send_list) \cup WakeupAllOf(receive_list) IN
     /\ sched_state' = Woken(W)
     /\ wakeup_reason' = Reasons(W)
  /\ arrival' = <<>>
  /\ fr' = [fr EXCEPT ![t] =
              [NoFrame EXCEPT !.op = "reset", !.res = "ok",
                              !.woken = WakeupAllOf(send_list)
                                          \cup WakeupAllOf(receive_list)]]
  /\ pc' = [pc EXCEPT ![t] = "ret"]
  /\ cur' = Hold(t, sq)
  /\ UNCHANGED <<sig_mask, sched_prio, lvars, isr, now, ub>>

\* ----------------------------------------------------------------- clock

\* With calls that run one at a time and take no time, a thread that was
\* made ready inside a blocking call runs before the clock advances again.
\* The tick interrupt: the clock advances, and the threads whose
\* Systick_clock::wait or sleep_for has run out are made ready.
Prompt(sq) ==
  sq => \A u \in Threads : ~(pc[u] = "wait" /\ sched_state[u] = "ready")

Tick(sq) ==
  /\ isr = NoIsr /\ ub = "none" /\ (sq => cur = none)
  /\ Prompt(sq)
  /\ now < MaxTicks
  /\ now' = now + 1
  /\ sched_state' = [u \in Threads |->
                       IF /\ pc[u] = "wait" /\ fr[u].op \in TimedOps
                          /\ sched_state[u] = "suspended"
                          /\ now + 1 >= fr[u].until
                       THEN "ready" ELSE sched_state[u]]
  /\ UNCHANGED <<qvars, wakeup_reason, sig_mask, sched_prio, lvars, pc,
                 fr, cur, isr, ub, arrival>>

\* ------------------------------------------- calls from interrupt handlers

\* try_send from an interrupt handler; the handler is not preempted.
IsrTrySend(sq, lens) ==
  /\ isr = NoIsr /\ ub = "none" /\ (sq => cur = none)
  /\ \E b \in Bytes, n \in lens, p \in Prios :
       LET r == SendCheck(TRUE, "try_send", FALSE, n)
           c == [NoIsr EXCEPT !.op = "try_send", !.nbytes = n]
       IN IF r # "none" \/ first_free = nullptr
          THEN /\ isr' = [c EXCEPT !.res = IF r # "none" THEN r ELSE "EAGAIN"]
               /\ UNCHANGED <<qvars, tvars, ub, arrival>>
          ELSE IF first_free \notin SlotAddrs
          THEN /\ ub' = "wild"
               /\ UNCHANGED <<qvars, tvars, isr, arrival>>
          ELSE IF WalkHangs(SetPrio(mem, MsgIx(first_free), p), head, p)
          THEN /\ ub' = "hang"
               /\ UNCHANGED <<qvars, tvars, isr, arrival>>
          ELSE LET dest == first_free
                   msg_ix == MsgIx(dest)
                   m1 == SetPrio(mem, msg_ix, p)
               IN /\ first_free' = mem[Off(dest)]
                  /\ mem' = CopyIn(Link(m1, head, msg_ix, p), dest, b, n)
                  /\ head' = NewHead(m1, head, msg_ix, p)
                  /\ count' = count + 1
                  /\ arrival' = Append(arrival, [ix |-> msg_ix, prio |-> p])
                  /\ receive_list' =
                       Detach(receive_list, SendWakes(receive_list))
                  /\ sched_state' = Woken(SendWakes(receive_list))
                  /\ wakeup_reason' = Reasons(SendWakes(receive_list))
                  /\ isr' = [c EXCEPT !.res = "ok"]
                  /\ UNCHANGED <<send_list, sig_mask, sched_prio,
                                 lvars, ub>>
  /\ UNCHANGED <<pc, fr, cur, now>>

\* try_receive from an interrupt handler.
IsrTryReceive(sq, lens) ==
  /\ isr = NoIsr /\ ub = "none" /\ (sq => cur = none)
  /\ \E n \in lens :
       LET r == RecvCheck(TRUE, "try_receive", FALSE, n)
           c == [NoIsr EXCEPT !.op = "try_receive", !.nbytes = n]
       IN IF r # "none" \/ head = no_index
          THEN /\ isr' = [c EXCEPT !.res = IF r # "none" THEN r ELSE "EAGAIN"]
               /\ UNCHANGED <<qvars, tvars, arrival>>
          ELSE LET src == SlotAddr(head)
                   u == Unlink(mem, head, count)
                   f == PushFree(u.mem, src, first_free)
               IN /\ isr' = [c EXCEPT !.buf = CopyOut(mem, src, n),
                                      !.oprio = Prio(mem, head),
                                      !.src = src,
                                      !.res = "ok"]
                  /\ mem' = f.mem
                  /\ head' = u.head
                  /\ first_free' = f.first_free
                  /\ count' = count - 1
                  /\ arrival' = SelectSeq(arrival,
                                          LAMBDA a : a.ix # MsgIx(src))
                  /\ send_list' = Detach(send_list, ReceiveWakes(send_list))
                  /\ sched_state' = Woken(ReceiveWakes(send_list))
                  /\ wakeup_reason' = Reasons(ReceiveWakes(send_list))
                  /\ UNCHANGED <<receive_list, sig_mask, sched_prio,
                                 lvars>>
  /\ UNCHANGED <<pc, fr, cur, now, ub>>

\* The interrupt handler returns.
IsrReturn ==
  /\ isr # NoIsr
  /\ isr' = NoIsr
  /\ UNCHANGED <<qvars, tvars, pc, fr, cur, now, ub, arrival>>

\* --------------------------------------------------------------- signals

\* Thread::sig_raise (lines 613-630) on the flags s: the result, the value
\* stored through oflags, the flags afterwards and whether wakeup () runs.
sig_raise_assign(s, m) ==
  IF m = {}
  THEN [res |-> "EINVAL", oflags |-> Stale, mask |-> s, wakes |-> FALSE]
  ELSE [res |-> "ok", oflags |-> s, mask |-> m, wakes |-> TRUE]
sig_raise(s, m) ==
  IF m = {}
  THEN [res |-> "EINVAL", oflags |-> Stale, mask |-> s, wakes |-> FALSE]
  ELSE [res |-> "ok", oflags |-> s, mask |-> s \cup m, wakes |-> TRUE]

\* Thread::sig_get (lines 643-665), outside handler mode: the value returned
\* and the flags afterwards.
sig_get_keep(s, m, mode) ==
  IF m = {} THEN [ret |-> s, mask |-> s]
  ELSE [ret |-> s \cap m, mask |-> s]
sig_get(s, m, mode) ==
  IF m = {} THEN [ret |-> s, mask |-> s]
  ELSE [ret |-> s \cap m,
        mask |-> IF "clear" \in mode THEN s \ m ELSE s]

\* Thread::sig_clear (lines 672-689), outside handler mode; sig_clear_all
\* assigns 0 to the flags.
sig_clear_all(s, m) ==
  IF m = {} THEN [res |-> "EINVAL", oflags |-> Stale, mask |-> s]
  ELSE [res |-> "ok", oflags |-> s, mask |-> {}]
sig_clear(s, m) ==
  IF m = {} THEN [res |-> "EINVAL", oflags |-> Stale, mask |-> s]
  ELSE [res |-> "ok", oflags |-> s, mask |-> s \ m]

\* Thread::_try_wait (lines 696-731); out is what *oflags holds before.
try_wait_some(s, m, mode, out) ==
  IF s \cap m # {} \/ (m = {} /\ s # {})
  THEN [res |-> "ok", oflags |-> s, mask |-> s \ m]
  ELSE [res |-> "EAGAIN", oflags |-> out, mask |-> s]
try_wait(s, m, mode, out) ==
  IF m # {} /\ "all" \in mode
  THEN IF (s \cap m) = m
       THEN [res |-> "ok", oflags |-> s, mask |-> s \ m]
       ELSE [res |-> "EAGAIN", oflags |-> out, mask |-> s]
  ELSE IF m = {} \/ "any" \in mode
  THEN IF s # {}
       THEN [res |-> "ok", oflags |-> s, mask |-> {}]
       ELSE [res |-> "EAGAIN", oflags |-> out, mask |-> s]
  ELSE [res |-> "EAGAIN", oflags |-> out, mask |-> s]

\* Thread::cancel (lines 503-512), outside handler mode.
cancel(st) == [res |-> "ok", st |-> st]

\* Thread t calls u.sig_raise (m, &oflags).
SigRaise(t, sq) ==
  /\ pc[t] = "idle" /\ CanRun(t, sq)
  /\ \E u \in Threads, m \in Masks :
       LET r == sig_raise(sig_mask[u], m) IN
       /\ fr' = [fr EXCEPT ![t] =
                   [NoFrame EXCEPT !.op = "sig_raise", !.target = u,
                                   !.mask = m, !.oflags = r.oflags,
                                   !.res = r.res]]
       /\ sig_mask' = [sig_mask EXCEPT ![u] = r.mask]
       /\ IF r.wakes
          THEN /\ sched_state' = Woken({u})
               /\ wakeup_reason' = Reasons({u})
          ELSE UNCHANGED <<sched_state, wakeup_reason>>
  /\ pc' = [pc EXCEPT ![t] = "ret"]
  /\ cur' = Hold(t, sq)
  /\ UNCHANGED <<qvars, sched_prio, lvars, isr, now, ub, arrival>>

\* Thread t calls u.sig_get (m, mode).
SigGet(t, sq) ==
  /\ pc[t] = "idle" /\ CanRun(t, sq)
  /\ \E u \in Threads, m \in Masks, mode \in {{}, {"clear"}} :
       LET r == sig_get(sig_mask[u], m, mode) IN
       /\ fr' = [fr EXCEPT ![t] =
                   [NoFrame EXCEPT !.op = "sig_get", !.target = u,
                                   !.mask = m, !.mode = mode,
                                   !.ret = r.ret, !.res = "ok"]]
       /\ sig_mask' = [sig_mask EXCEPT ![u] = r.mask]
  /\ pc' = [pc EXCEPT ![t] = "ret"]
  /\ cur' = Hold(t, sq)
  /\ UNCHANGED <<qvars, sched_state, wakeup_reason, sched_prio, lvars,
                 isr, now, ub, arrival>>

\* Thread t calls u.sig_clear (m, &oflags).
SigClear(t, sq) ==
  /\ pc[t] = "idle" /\ CanRun(t, sq)
  /\ \E u \in Threads, m \in Masks :
       LET r == sig_clear(sig_mask[u], m) IN
       /\ fr' = [fr EXCEPT ![t] =
                   [NoFrame EXCEPT !.op = "sig_clear", !.target = u,
                                   !.mask = m, !.oflags = r.oflags,
                                   !.res = r.res]]
       /\ sig_mask' = [sig_mask EXCEPT ![u] = r.mask]
  /\ pc' = [pc EXCEPT ![t] = "ret"]
  /\ cur' = Hold(t, sq)
  /\ UNCHANGED <<qvars, sched_state, wakeup_reason, sched_prio, lvars,
                 isr, now, ub, arrival>>

\* Thread u is suspended inside a blocking call.
Blocked(u) == pc[u] = "wait" /\ sched_state[u] = "suspended"

\* Thread t calls u.cancel (); the frame keeps whether u was blocked then.
Cancel(t, sq) ==
  /\ pc[t] = "idle" /\ CanRun(t, sq)
  /\ \E u \in Threads \ {t} :
       LET r == cancel(sched_state[u]) IN
       /\ fr' = [fr EXCEPT ![t] =
                   [NoFrame EXCEPT !.op = "cancel", !.target = u,
                                   !.blocked = Blocked(u),
                                   !.res = r.res]]
       /\ sched_state' = [sched_state EXCEPT ![u] = r.st]
  /\ pc' = [pc EXCEPT ![t] = "ret"]
  /\ cur' = Hold(t, sq)
  /\ UNCHANGED <<qvars, wakeup_reason, sig_mask, sched_prio, lvars,
                 isr, now, ub, arrival>>

\* sig_wait, try_sig_wait, timed_sig_wait of thread t on its own flags, up
\* to the first attempt (lines 758, 796, 839-846).
CallSigWait(t, sq, ops, masks) ==
  /\ pc[t] = "idle" /\ CanRun(t, sq)
  /\ \E op \in ops, m \in masks, mode \in WaitModes, to \in 0..MaxTimeout :
       /\ op \notin TimedOps => to = 0
       /\ fr' = [fr EXCEPT ![t] =
                   [NoFrame EXCEPT !.op = op, !.target = t, !.mask = m,
                                   !.mode = mode,
                                   !.timeout = Timeout(op, to),
                                   !.start = now]]
  /\ pc' = [pc EXCEPT ![t] = "try"]
  /\ cur' = Hold(t, sq)
  /\ UNCHANGED <<qvars, tvars, isr, now, ub, arrival>>

\* The critical section around _try_wait (lines 762-769, 797-800, 850-857).
SigTry(t, sq) ==
  /\ pc[t] = "try" /\ fr[t].op \in SigWaitOps /\ CanRun(t, sq)
  /\ LET r == try_wait(sig_mask[t], fr[t].mask, fr[t].mode, fr[t].oflags) IN
     /\ sig_mask' = [sig_mask EXCEPT ![t] = r.mask]
     /\ IF r.res = "ok"
        THEN /\ fr' = [fr EXCEPT ![t].oflags = r.oflags, ![t].res = "ok"]
             /\ pc' = [pc EXCEPT ![t] = "ret"]
        ELSE /\ fr' = [fr EXCEPT ![t].res =
                         IF fr[t].op = "try_sig_wait" THEN r.res ELSE "none"]
             /\ pc' = [pc EXCEPT ![t] = AfterFail(fr[t].op)]
  /\ cur' = Hold(t, sq)
  /\ UNCHANGED <<qvars, sched_state, wakeup_reason, sched_prio, lvars,
                 isr, now, ub, arrival>>

\* ---------------------------------- the other entry points, in handler mode

\* The entry points the interface does not allow in an interrupt handler.
QueueForbidden == {"send", "timed_send", "receive", "timed_receive", "reset"}
ThreadForbidden ==
  {"sched_prio_get", "sched_prio_set", "join", "detach", "cancel", "exit",
   "kill", "suspend", "sig_get", "sig_clear", "sig_wait", "try_sig_wait",
   "timed_sig_wait"}
HandlerForbidden == QueueForbidden \cup ThreadForbidden

\* What the first statement of each Thread entry point yields when
\* scheduler::in_handler_mode () holds: the value of its os_assert_err or
\* os_assert_throw, or "none" for an entry point that has no such statement.
HandlerModeResult(e) ==
  CASE e = "sched_prio_get" -> "priority::error"     \* line 337
    [] e = "sched_prio_set" -> "EPERM"               \* line 374
    [] e = "join" -> "EPERM"                         \* line 420
    [] e = "detach" -> "EPERM"                       \* line 468
    [] e = "cancel" -> "EPERM"                       \* line 506
    [] e = "exit" -> "EPERM"                         \* line 558
    [] e = "sig_get" -> "sig::error"                 \* line 646
    [] e = "sig_clear" -> "EPERM"                    \* line 675
    [] e = "sig_wait" -> "EPERM"                     \* line 758
    [] e = "try_sig_wait" -> "EPERM"                 \* line 796
    [] e = "timed_sig_wait" -> "EPERM"               \* line 839
    [] e \in {"kill", "suspend", "wakeup", "sig_raise"} -> "none"

\* What port::Thread::kill may return.
PortResults == {"ok", "EPERM"}

\* Thread::kill (lines 585-603): the result and sched_state_ afterwards.
kill(st, port_res) == [res |-> port_res, st |-> "inactive"]

\* Thread::suspend (lines 269-283).
suspend(st) == [res |-> "void", st |-> PortSuspend(st)]

\* The queue's entry points called in handler mode.
QueueHandlerResult(e, n) ==
  IF e \in SendOps THEN SendCheck(TRUE, e, FALSE, n)
  ELSE IF e \in RecvOps THEN RecvCheck(TRUE, e, FALSE, n)
  ELSE ResetCheck(TRUE)

\* An interrupt handler calls entry point e, of the queue or of thread t.
HandlerCall(sq) ==
  /\ isr = NoIsr /\ ub = "none" /\ (sq => cur = none)
  /\ \E e \in HandlerForbidden, t \in Threads, pr \in PortResults :
       LET c == [NoIsr EXCEPT !.op = e] IN
       IF e \in QueueForbidden
       THEN /\ isr' = [c EXCEPT !.res = QueueHandlerResult(e, MsgSize)]
            /\ UNCHANGED sched_state
       ELSE IF HandlerModeResult(e) # "none"
       THEN /\ isr' = [c EXCEPT !.res = HandlerModeResult(e)]
            /\ UNCHANGED sched_state
       ELSE LET r == IF e = "kill" THEN kill(sched_state[t], pr)
                     ELSE suspend(sched_state[t])
            IN /\ isr' = [c EXCEPT !.res = r.res]
               /\ sched_state' = [sched_state EXCEPT ![t] = r.st]
  /\ UNCHANGED <<qvars, wakeup_reason, sig_mask, sched_prio, lvars, pc,
                 fr, cur, now, ub, arrival>>

\* Thread::sig_raise (lines 613-630) from an interrupt handler.
IsrSigRaise(sq) ==
  /\ isr = NoIsr /\ ub = "none" /\ (sq => cur = none)
  /\ \E t \in Threads, m \in Masks :
       LET r == sig_raise(sig_mask[t], m) IN
       /\ isr' = [NoIsr EXCEPT !.op = "sig_raise", !.target = t,
                               !.mask = m, !.oflags = r.oflags,
                               !.res = r.res]
       /\ sig_mask' = [sig_mask EXCEPT ![t] = r.mask]
       /\ IF r.wakes
          THEN /\ sched_state' = Woken({t})
               /\ wakeup_reason' = Reasons({t})
          ELSE UNCHANGED <<sched_state, wakeup_reason>>
  /\ UNCHANGED <<qvars, sched_prio, lvars, pc, fr, cur, now, ub, arrival>>

\* Thread::wakeup (lines 291-306) from an interrupt handler.
IsrWakeup(sq) ==
  /\ isr = NoIsr /\ ub = "none" /\ (sq => cur = none)
  /\ \E t \in Threads :
       /\ isr' = [NoIsr EXCEPT !.op = "wakeup", !.res = "void"]
       /\ sched_state' = Woken({t})
       /\ wakeup_reason' = Reasons({t})
  /\ UNCHANGED <<qvars, sig_mask, sched_prio, lvars, pc, fr, cur, now, ub,
                 arrival>>

\* ------------------------------------------------------- thread lifecycle

\* The threads blocked in join on thread u.
Joiners(u) ==
  {w \in Threads : pc[w] = "wait" /\ fr[w].op = "join" /\ fr[w].target = u}

\* port::Thread::exit: the thread is appended to the scheduler's list of
\* terminated threads.
PortExit(tl, u) == Append(tl, u)

\* Thread::exit (lines 555-583) on a thread in state st with exit value
\* fres: the state, the exit value and the terminated list afterwards.
exit_again(st, fres, tl, u, v) ==
  [st |-> "terminated", func_result |-> v,
   terminated_list |-> PortExit(tl, u), done |-> TRUE]
exit(st, fres, tl, u, v) ==
  IF st = "terminated"
  THEN [st |-> st, func_result |-> fres, terminated_list |-> tl,
        done |-> FALSE]
  ELSE [st |-> "terminated", func_result |-> v,
        terminated_list |-> PortExit(tl, u), done |-> TRUE]

\* Thread t runs u.exit (v), as call op; the threads blocked in join on u
\* are made ready when u terminates.  A thread that is not ready any more
\* gives up the processor and its call does not return.
ExitCall(t, u, v, op, sq) ==
  LET r == exit(sched_state[u], func_result[u], terminated_list, u, v) IN
  /\ Len(r.terminated_list) <= MaxExits
  /\ func_result' = [func_result EXCEPT ![u] = r.func_result]
  /\ terminated_list' = r.terminated_list
  /\ sched_state' =
       [w \in Threads |->
          IF w = u THEN r.st
          ELSE IF r.done /\ w \in Joiners(u) THEN WakeState(sched_state[w])
          ELSE sched_state[w]]
  /\ fr' = [fr EXCEPT ![t] =
              [NoFrame EXCEPT !.op = op, !.target = u, !.value = v,
                              !.was = sched_state[u], !.res = "void"]]
  /\ pc' = [pc EXCEPT ![t] = "ret"]
  /\ cur' = IF u = t THEN none ELSE Hold(t, sq)
  /\ UNCHANGED <<qvars, wakeup_reason, sig_mask, sched_prio, obj, os_idle,
                 isr, now, ub, arrival>>

\* Thread t calls u.exit (v), on itself or on another thread.
Exit(t, sq) ==
  /\ pc[t] = "idle" /\ CanRun(t, sq)
  /\ \E u \in Threads, v \in Values : ExitCall(t, u, v, "exit", sq)

\* Thread::_invoke_with_exit (lines 146-150): the entry function of thread
\* t returns v.
InvokeWithExit(t, sq) ==
  /\ pc[t] = "idle" /\ CanRun(t, sq)
  /\ \E v \in Values : ExitCall(t, t, v, "return", sq)

\* Thread t calls u.kill (), on itself or on another thread (lines 585-603).
Kill(t, sq) ==
  /\ pc[t] = "idle" /\ CanRun(t, sq)
  /\ \E u \in Threads, pr \in PortResults :
       LET r == kill(sched_state[u], pr) IN
       /\ sched_state' = [sched_state EXCEPT ![u] = r.st]
       /\ fr' = [fr EXCEPT ![t] =
                   [NoFrame EXCEPT !.op = "kill", !.target = u,
                                   !.was = sched_state[u], !.res = r.res]]
       /\ cur' = IF u = t THEN none ELSE Hold(t, sq)
  /\ pc' = [pc EXCEPT ![t] = "ret"]
  /\ UNCHANGED <<qvars, wakeup_reason, sig_mask, sched_prio, lvars, isr, now,
                 ub, arrival>>

\* port::Thread::join returns once the target has terminated.
PortJoinDone(st) == st = "terminated"

\* if (exit_ptr != nullptr) *exit_ptr = func_result_ (lines 440-443): the
\* caller's variable afterwards.
join_store_none(exit_ptr, out, fres) == out
join_store(exit_ptr, out, fres) == IF exit_ptr THEN fres ELSE out

\* Thread t calls u.join (exit_ptr), on itself or on another thread
\* (lines 417-424).
CallJoin(t, sq) ==
  /\ pc[t] = "idle" /\ CanRun(t, sq)
  /\ \E u \in Threads, p \in BOOLEAN :
       fr' = [fr EXCEPT ![t] =
                [NoFrame EXCEPT !.op = "join", !.target = u,
                                !.exit_ptr = p]]
  /\ pc' = [pc EXCEPT ![t] = "try"]
  /\ cur' = Hold(t, sq)
  /\ UNCHANGED <<qvars, tvars, isr, now, ub, arrival>>

\* port::Thread::join (line 428) and the rest of join (lines 440-446): the
\* caller waits while the target has not terminated, then takes the exit
\* value.  The frame keeps whether the caller had to wait.
JoinTry(t, sq) ==
  /\ pc[t] = "try" /\ fr[t].op = "join" /\ CanRun(t, sq)
  /\ LET u == fr[t].target IN
     IF PortJoinDone(sched_state[u])
     THEN /\ fr' = [fr EXCEPT ![t].res = "ok",
                              ![t].out = join_store(fr[t].exit_ptr,
                                                    fr[t].out,
                                                    func_result[u])]
          /\ pc' = [pc EXCEPT ![t] = "ret"]
     ELSE /\ pc' = [pc EXCEPT ![t] = "susp"]
          /\ fr' = [fr EXCEPT ![t].blocked = TRUE]
  /\ cur' = Hold(t, sq)
  /\ UNCHANGED <<qvars, tvars, isr, now, ub, arrival>>

\* Thread::sched_prio (prio) (lines 371-391): assert (prio != none) stops
\* the program in a build with assertions and is nothing in one without
\* (ndebug); port::Thread::sched_prio then takes the priority over.
sched_prio_set(old, prio, ndebug) ==
  IF prio = "none" /\ ~ndebug THEN [res |-> "abort", prio |-> old]
  ELSE [res |-> "ok", prio |-> prio]

\* Thread t calls u.sched_prio (prio).
SchedPrioSet(t, sq) ==
  /\ pc[t] = "idle" /\ CanRun(t, sq)
  /\ \E u \in Threads, prio \in Priorities, ndebug \in BOOLEAN :
       LET r == sched_prio_set(sched_prio[u], prio, ndebug) IN
       /\ sched_prio' = [sched_prio EXCEPT ![u] = r.prio]
       /\ ub' = IF r.res = "abort" THEN "abort" ELSE ub
       /\ fr' = [fr EXCEPT ![t] =
                   [NoFrame EXCEPT !.op = "sched_prio_set", !.target = u,
                                   !.value = prio, !.res = r.res]]
  /\ pc' = [pc EXCEPT ![t] = "ret"]
  /\ cur' = Hold(t, sq)
  /\ UNCHANGED <<qvars, sched_state, wakeup_reason, sig_mask, lvars, isr, now,
                 arrival>>

\* ------------------------------------- construction and destruction

\* A second Message_queue object, built with the arguments the application
\* chooses.  user_addr is the storage the application hands in through the
\* attributes, heap_addr what new returns.
user_addr == 2000
heap_addr == 3000

\* flags_ is the set of its bits.
flags_allocated == {"allocated"}

\* storage_size (lines 1091-1093), an index and a priority taking one cell.
StorageSize(msgs, msg_size) == msgs * (msg_size + 2 + 1)

\* The checks of the constructor (lines 1086-1105): the error thrown, or
\* "none".
ConstructCheck(h, addr, size, msgs, msg_size) ==
  IF h THEN "EPERM"
  ELSE IF addr # nullptr /\ ~(size > 0) THEN "EINVAL"
  ELSE IF addr # nullptr /\ ~(size >= StorageSize(msgs, msg_size))
  THEN "EINVAL"
  ELSE "none"

\* The addresses of the blocks _init writes a link into: the loop of lines
\* 1185-1189 runs msgs - 1 times, and line 1190 writes once more.
Blocks(qa, msgs, msg_size) ==
  {qa + k * msg_size : k \in 0..(IF msgs = 0 THEN 0 ELSE msgs - 1)}

\* The loop of _init (lines 1184-1190): the link written in each block.
RECURSIVE InitLoop(_, _, _, _, _)
InitLoop(l, p, i, msgs, msg_size) ==
  IF i < msgs
  THEN InitLoop([l EXCEPT ![p] = p + msg_size], p + msg_size, i + 1, msgs,
                msg_size)
  ELSE [l EXCEPT ![p] = nullptr]

\* prev_array_, next_array_ and prio_array_ as the constructor computes them
\* (lines 1119-1127) from queue_addr_, which at that point is the address
\* the attributes gave; the allocation comes after (lines 1129-1134).
ArraysAt(qa, msgs, msg_size) ==
  [prev_array |-> qa + msgs * msg_size,
   next_array |-> qa + msgs * msg_size + msgs,
   prio_array |-> qa + msgs * msg_size + 2 * msgs]

\* The constructor (lines 1078-1138) with _init (lines 1173-1194).
Construct ==
  /\ obj.state = "none" /\ isr = NoIsr /\ ub = "none"
  /\ \E addr \in {nullptr, user_addr}, msgs \in 0..Msgs,
        msg_size \in 0..MsgSize :
       \E size \in {0, 1, StorageSize(msgs, msg_size),
                    StorageSize(Msgs, MsgSize)} :
         LET e == ConstructCheck(FALSE, addr, size, msgs, msg_size)
             qa == IF addr = nullptr THEN heap_addr ELSE addr
             fl == IF addr = nullptr THEN flags_allocated ELSE {}
             region == IF addr = nullptr THEN StorageSize(msgs, msg_size)
                       ELSE size
             arr == ArraysAt(addr, msgs, msg_size)
             args == [NoObject EXCEPT !.msgs = msgs, !.msg_size = msg_size,
                                      !.attr_addr = addr, !.size = region]
         IN IF e # "none"
            THEN /\ obj' = [args EXCEPT !.state = "refused", !.res = e]
                 /\ UNCHANGED ub
            ELSE /\ obj' =
                      [args EXCEPT
                         !.state = "live", !.res = "ok", !.queue_addr = qa,
                         !.flags = fl, !.count = 0, !.head = no_index,
                         !.prev_array = arr.prev_array,
                         !.next_array = arr.next_array,
                         !.prio_array = arr.prio_array,
                         !.first_free = qa,
                         !.link = InitLoop([a \in Blocks(qa, msgs, msg_size)
                                              |-> Junk],
                                           qa, 1, msgs, msg_size)]
                 \* line 1190 writes a pointer at the last block
                 /\ ub' = IF region < 1 THEN "wild" ELSE ub
  /\ UNCHANGED <<qvars, sched_state, wakeup_reason, sig_mask, sched_prio,
                 func_result, terminated_list, os_idle, pc, fr, cur, isr,
                 now, arrival>>

\* try_send on the second object, of a whole message at one priority
\* (lines 1227-1292): a free block is taken, the index is computed from its
\* address, its priority is stored at prio_array_[msg_ix], the message is
\* counted and copied.  A division by zero or a write outside the storage
\* leaves defined behaviour.
ObjTrySend ==
  /\ obj.state = "live" /\ isr = NoIsr /\ ub = "none"
  /\ IF obj.first_free = nullptr
     THEN /\ obj' = [obj EXCEPT !.res = "EAGAIN"]
          /\ UNCHANGED ub
     ELSE LET dest == obj.first_free IN
          IF obj.msg_size = 0
          THEN /\ ub' = "wild"
               /\ obj' = [obj EXCEPT !.first_free = obj.link[dest]]
          ELSE LET msg_ix == (dest - obj.queue_addr) \div obj.msg_size
                   prio_at == obj.prio_array + msg_ix - obj.queue_addr
                   last == (dest - obj.queue_addr) + obj.msg_size - 1
               IN /\ obj' = [obj EXCEPT
                               !.first_free = obj.link[dest],
                               !.head = IF obj.head = no_index THEN msg_ix
                                        ELSE obj.head,
                               !.count = obj.count + 1,
                               !.res = "ok"]
                  /\ ub' = IF prio_at \notin 0..(obj.size - 1)
                                \/ last >= obj.size
                           THEN "wild" ELSE ub
  /\ UNCHANGED <<qvars, sched_state, wakeup_reason, sig_mask, sched_prio,
                 func_result, terminated_list, os_idle, pc, fr, cur, isr,
                 now, arrival>>

\* if (flags_ | flags_allocated) (line 1165).
OwnsStorage(flags) == (flags \cup flags_allocated) # {}

\* The destructor (lines 1155-1171): delete[] of storage that did not come
\* from new leaves defined behaviour.
Destroy ==
  /\ obj.state = "live" /\ isr = NoIsr /\ ub = "none"
  /\ IF OwnsStorage(obj.flags)
     THEN /\ obj' = [obj EXCEPT !.state = "destroyed",
                                !.deleted = obj.deleted \cup {obj.queue_addr}]
          /\ ub' = IF obj.queue_addr # heap_addr THEN "wild" ELSE ub
     ELSE /\ obj' = [obj EXCEPT !.state = "destroyed"]
          /\ UNCHANGED ub
  /\ UNCHANGED <<qvars, sched_state, wakeup_reason, sig_mask, sched_prio,
                 func_result, terminated_list, os_idle, pc, fr, cur, isr,
                 now, arrival>>

\* ---------------------------------------------------------- specifications

\* Calls run one at a time: threads switch when a call returns or suspends,
\* interrupt handlers run between calls.  The clock stands still.
Next ==
  \/ \E t \in Threads : CallSend(t, TRUE, {"send", "try_send"}, SendLens)
  \/ \E t \in Threads : TrySendLink(t, TRUE)
  \/ \E t \in Threads : TrySendCopy(t, TRUE)
  \/ \E t \in Threads : TrySendWake(t, TRUE)
  \/ \E t \in Threads :
       CallReceive(t, TRUE, {"receive", "try_receive"}, RecvLens)
  \/ \E t \in Threads : TryReceiveHead(t, TRUE)
  \/ \E t \in Threads : TryReceiveCopy(t, TRUE)
  \/ \E t \in Threads : TryReceiveUnlink(t, TRUE)
  \/ \E t \in Threads : TryReceiveWake(t, TRUE)
  \/ \E t \in Threads : Enroll(t, TRUE)
  \/ \E t \in Threads : Suspend(t, TRUE)
  \/ \E t \in Threads : Resume(t, TRUE)
  \/ \E t \in Threads : Return(t, TRUE)
  \/ \E t \in Threads : Reset(t, TRUE)
  \/ IsrTrySend(TRUE, FullLens)
  \/ IsrTryReceive(TRUE, FullLens)
  \/ IsrReturn

Spec == Init /\ [][Next]_vars

\* The same, with the timed calls and the clock.
NextAll ==
  \/ \E t \in Threads : CallSend(t, TRUE, SendOps, FullLens)
  \/ \E t \in Threads : TrySendLink(t, TRUE)
  \/ \E t \in Threads : TrySendCopy(t, TRUE)
  \/ \E t \in Threads : TrySendWake(t, TRUE)
  \/ \E t \in Threads : CallReceive(t, TRUE, RecvOps, FullLens)
  \/ \E t \in Threads : TryReceiveHead(t, TRUE)
  \/ \E t \in Threads : TryReceiveCopy(t, TRUE)
  \/ \E t \in Threads : TryReceiveUnlink(t, TRUE)
  \/ \E t \in Threads : TryReceiveWake(t, TRUE)
  \/ \E t \in Threads : TimeCheck(t, TRUE)
  \/ \E t \in Threads : Enroll(t, TRUE)
  \/ \E t \in Threads : Suspend(t, TRUE)
  \/ \E t \in Threads : Resume(t, TRUE)
  \/ \E t \in Threads : Return(t, TRUE)
  \/ \E t \in Threads : Reset(t, TRUE)
  \/ Tick(TRUE)
  \/ IsrTrySend(TRUE, FullLens)
  \/ IsrTryReceive(TRUE, FullLens)
  \/ IsrReturn

SpecAll == Init /\ [][NextAll]_vars

\* Interrupt handlers that also call the entry points they must not call.
NextHandler ==
  \/ \E t \in Threads : CallSend(t, TRUE, {"send", "try_send"}, FullLens)
  \/ \E t \in Threads : TrySendLink(t, TRUE)
  \/ \E t \in Threads : TrySendCopy(t, TRUE)
  \/ \E t \in Threads : TrySendWake(t, TRUE)
  \/ \E t \in Threads :
       CallReceive(t, TRUE, {"receive", "try_receive"}, FullLens)
  \/ \E t \in Threads : TryReceiveHead(t, TRUE)
  \/ \E t \in Threads : TryReceiveCopy(t, TRUE)
  \/ \E t \in Threads : TryReceiveUnlink(t, TRUE)
  \/ \E t \in Threads : TryReceiveWake(t, TRUE)
  \/ \E t \in Threads : Enroll(t, TRUE)
  \/ \E t \in Threads : Suspend(t, TRUE)
  \/ \E t \in Threads : Resume(t, TRUE)
  \/ \E t \in Threads : Return(t, TRUE)
  \/ HandlerCall(TRUE)
  \/ IsrSigRaise(TRUE)
  \/ IsrWakeup(TRUE)
  \/ IsrReturn

SpecHandler == Init /\ [][NextHandler]_vars

\* One thread sends and the other receives; a thread is preempted anywhere
\* outside the critical sections, and a thread that can run does run.
Sender == "t1"
Receiver == "t2"

Step(t) ==
  \/ TrySendLink(t, FALSE)
  \/ TrySendCopy(t, FALSE)
  \/ TrySendWake(t, FALSE)
  \/ TryReceiveHead(t, FALSE)
  \/ TryReceiveCopy(t, FALSE)
  \/ TryReceiveUnlink(t, FALSE)
  \/ TryReceiveWake(t, FALSE)
  \/ Enroll(t, FALSE)
  \/ Suspend(t, FALSE)
  \/ Resume(t, FALSE)
  \/ Return(t, FALSE)

NextConc ==
  \/ CallSend(Sender, FALSE, {"send"}, FullLens)
  \/ CallReceive(Receiver, FALSE, {"receive"}, FullLens)
  \/ \E t \in Threads : Step(t)

SpecConc ==
  Init /\ [][NextConc]_vars /\ \A t \in Threads : WF_vars(Step(t))

\* The signal flags, calls running one at a time; the clock stands still.
NextSig ==
  \/ \E t \in Threads : SigRaise(t, TRUE)
  \/ \E t \in Threads : SigGet(t, TRUE)
  \/ \E t \in Threads : SigClear(t, TRUE)
  \/ \E t \in Threads :
       CallSigWait(t, TRUE, {"sig_wait", "try_sig_wait"}, Masks)
  \/ \E t \in Threads : SigTry(t, TRUE)
  \/ \E t \in Threads : Suspend(t, TRUE)
  \/ \E t \in Threads : Resume(t, TRUE)
  \/ \E t \in Threads : Return(t, TRUE)
  \/ IsrSigRaise(TRUE)
  \/ IsrReturn

SpecSig == Init /\ [][NextSig]_vars

Waiter == "t1"
Other == "t2"

\* The timed calls and the clock, calls running one at a time: one thread
\* makes the timed calls, the other one wakes it early, with reset and with
\* sig_raise.
NextClock ==
  \/ CallSend(Waiter, TRUE, {"timed_send"}, FullLens)
  \/ TrySendLink(Waiter, TRUE)
  \/ TrySendCopy(Waiter, TRUE)
  \/ TrySendWake(Waiter, TRUE)
  \/ CallReceive(Waiter, TRUE, {"timed_receive"}, FullLens)
  \/ TryReceiveHead(Waiter, TRUE)
  \/ TryReceiveCopy(Waiter, TRUE)
  \/ TryReceiveUnlink(Waiter, TRUE)
  \/ TryReceiveWake(Waiter, TRUE)
  \/ CallSigWait(Waiter, TRUE, {"timed_sig_wait"}, Masks)
  \/ SigTry(Waiter, TRUE)
  \/ TimeCheck(Waiter, TRUE)
  \/ Enroll(Waiter, TRUE)
  \/ Suspend(Waiter, TRUE)
  \/ Resume(Waiter, TRUE)
  \/ SigRaise(Other, TRUE)
  \/ Reset(Other, TRUE)
  \/ \E t \in Threads : Return(t, TRUE)
  \/ Tick(TRUE)

SpecClock == Init /\ [][NextClock]_vars

\* One thread waits in timed_receive and is preempted anywhere outside the
\* critical sections by the tick and by interrupt handlers that send a
\* message.
NextRace ==
  \/ CallReceive(Waiter, FALSE, {"timed_receive"}, FullLens)
  \/ TryReceiveHead(Waiter, FALSE)
  \/ TryReceiveCopy(Waiter, FALSE)
  \/ TryReceiveUnlink(Waiter, FALSE)
  \/ TryReceiveWake(Waiter, FALSE)
  \/ TimeCheck(Waiter, FALSE)
  \/ Enroll(Waiter, FALSE)
  \/ Suspend(Waiter, FALSE)
  \/ Resume(Waiter, FALSE)
  \/ Return(Waiter, FALSE)
  \/ Tick(FALSE)
  \/ IsrTrySend(FALSE, FullLens)
  \/ IsrReturn

SpecRace == Init /\ [][NextRace]_vars

\* One thread blocks, in receive or sig_wait, the other one raises its flags
\* or cancels it; a thread is preempted anywhere outside the critical
\* sections, and a thread that can run does run.
WakeStep(t) ==
  \/ TryReceiveHead(t, FALSE)
  \/ SigTry(t, FALSE)
  \/ Enroll(t, FALSE)
  \/ Suspend(t, FALSE)
  \/ Resume(t, FALSE)
  \/ Return(t, FALSE)

NextWake ==
  \/ CallReceive(Waiter, FALSE, {"receive"}, FullLens)
  \/ CallSigWait(Waiter, FALSE, {"sig_wait"}, Masks)
  \/ SigRaise(Other, FALSE)
  \/ Cancel(Other, FALSE)
  \/ \E t \in Threads : WakeStep(t)

SpecWake ==
  Init /\ [][NextWake]_vars /\ \A t \in Threads : WF_vars(WakeStep(t))

\* The thread entry points, calls running one at a time: exit, return from
\* the entry function, kill, join and the priority.
NextThread ==
  \/ \E t \in Threads : Exit(t, TRUE)
  \/ \E t \in Threads : InvokeWithExit(t, TRUE)
  \/ \E t \in Threads : Kill(t, TRUE)
  \/ \E t \in Threads : CallJoin(t, TRUE)
  \/ \E t \in Threads : JoinTry(t, TRUE)
  \/ \E t \in Threads : Suspend(t, TRUE)
  \/ \E t \in Threads : Resume(t, TRUE)
  \/ \E t \in Threads : SchedPrioSet(t, TRUE)
  \/ \E t \in Threads : Return(t, TRUE)

SpecThread == Init /\ [][NextThread]_vars

\* The threads block in receive on the empty queue, or find it empty with
\* try_receive, and reset the queue; a thread is preempted anywhere outside the critical sections,
\* and a thread that can run does run.
ResetStep(t) ==
  \/ TryReceiveHead(t, FALSE)
  \/ Enroll(t, FALSE)
  \/ Suspend(t, FALSE)
  \/ Resume(t, FALSE)
  \/ Return(t, FALSE)

NextReset ==
  \/ \E t \in Threads :
       CallReceive(t, FALSE, {"receive", "try_receive"}, RecvLens)
  \/ \E t \in Threads : Reset(t, FALSE)
  \/ \E t \in Threads : ResetStep(t)

SpecReset ==
  Init /\ [][NextReset]_vars /\ \A t \in Threads : WF_vars(ResetStep(t))

\* The life of the second queue object: construction, try_send, destruction.
NextObject ==
  \/ Construct
  \/ ObjTrySend
  \/ Destroy

SpecObject == Init /\ [][NextObject]_vars

\* ------------------------------------------------------------- properties

\* The priorities of the messages enqueued, and the largest of a set.
SentPrios(a) == {a[k].prio : k \in 1..Len(a)}
MaxOf(S) == IF S = {} THEN 0 ELSE CHOOSE x \in S : \A y \in S : y <= x

\* The places in the send order of the message held by slot ix.
Places(a, ix) == {k \in 1..Len(a) : a[k].ix = ix}

\* Thread t copies a message out of the queue in this step; an interrupt
\* handler receives one; thread t ends a successful receive or send.
ThreadReceives(t) ==
  pc[t] = "copy" /\ fr[t].op \in RecvOps /\ pc'[t] = "unlink"
IsrReceives == isr = NoIsr /\ isr'.op = "try_receive" /\ isr'.res = "ok"
IsrSends == isr = NoIsr /\ isr'.op = "try_send" /\ isr'.res = "ok"
ReceiveEnds(t) == pc[t] = "wake" /\ fr[t].op \in RecvOps /\ pc'[t] = "ret"
SendEnds(t) == pc[t] = "wake" /\ fr[t].op \in SendOps /\ pc'[t] = "ret"

\* sched_state_ of every thread after the oldest waiter of list, if any, is
\* made ready and nobody else is touched.
OldestReady(list) ==
  IF list = <<>> THEN sched_state
  ELSE [sched_state EXCEPT ![Head(list)] = "ready"]
RestOf(list) == IF list = <<>> THEN <<>> ELSE Tail(list)

\* C1: for a queue of capacity Msgs, whatever send, try_send, timed_send,
\* receive, try_receive, timed_receive and reset calls have run, count plus
\* the number of slots on the free list is Msgs and 0 <= count <= Msgs (the
\* free list holds slots, each once).
C1_Conservation ==
  /\ count + Len(FreeList) = Msgs
  /\ count \in 0..Msgs
  /\ \A k \in 1..Len(FreeList) : FreeList[k] \in Slots
  /\ Cardinality({FreeList[k] : k \in 1..Len(FreeList)}) = Len(FreeList)

\* A timed_receive has taken the older of two messages: its slot, the first
\* of the region, is back on the free list, in front.
C1_Witness ==
  /\ count = 1 /\ head # 0 /\ first_free = queue_addr
  /\ \E t \in Threads :
       pc[t] = "ret" /\ fr[t].op = "timed_receive" /\ fr[t].res = "ok"

\* C2: with calls running one at a time, every successful receive returns
\* the largest priority among the messages enqueued, so the priorities
\* successive receives return do not increase.
C2_MaxPriority ==
  [][/\ \A t \in Threads :
          ThreadReceives(t) => fr'[t].oprio = MaxOf(SentPrios(arrival))
     /\ IsrReceives => isr'.oprio = MaxOf(SentPrios(arrival))]_vars

\* A receive returns a message that was sent after a message of lower
\* priority, which stays enqueued.
C2_Witness ==
  \E t \in Threads :
    /\ pc[t] = "unlink" /\ Len(arrival) >= 2
    /\ arrival[1].prio < fr[t].oprio
    /\ MsgIx(fr[t].ptr) = arrival[Len(arrival)].ix

\* The message of slot ix is the one to receive: no enqueued message of its
\* priority was sent before it, and no enqueued message has a higher
\* priority.
Due(a, ix) ==
  /\ Places(a, ix) # {}
  /\ \A k \in Places(a, ix), j \in 1..Len(a) :
       /\ a[j].prio <= a[k].prio
       /\ j < k => a[j].prio < a[k].prio

C4_SendsUpToCapacity ==
  [][\A t \in Threads :
       /\ (pc[t] = "try" /\ fr[t].op = "send" /\ pc'[t] # "try"
             /\ count < Msgs)
            => (pc'[t] = "copy" /\ count' = count + 1
                  /\ sched_state'[t] = "ready"
                  /\ send_list' = send_list)
       /\ (pc[t] = "copy" /\ fr[t].op = "send" /\ pc'[t] # "copy")
            => pc'[t] = "wake"
       /\ (pc[t] = "wake" /\ fr[t].op = "send" /\ pc'[t] # "wake")
            => (pc'[t] = "ret" /\ fr'[t].res = "ok"
                  /\ sched_state'[t] = "ready")]_vars

\* A send has filled the queue and returns ok; nobody waits.
C4_Witness ==
  \E t \in Threads :
    /\ pc[t] = "ret" /\ fr[t].op = "send" /\ fr[t].res = "ok"
    /\ count = Msgs /\ Len(arrival) = Msgs
    /\ send_list = <<>> /\ receive_list = <<>>

\* C5: try_send fails with EAGAIN exactly when the queue holds Msgs messages
\* and try_receive exactly when it holds none; the failing call changes
\* neither count, head, the ring, the free list nor the wait lists; and a
\* thread inside try_send or try_receive is never enrolled or suspended.
C5_TryNeverBlocks ==
  [][/\ \A t \in Threads :
          (pc[t] = "try" /\ fr[t].op = "try_send" /\ pc'[t] # "try")
            => /\ (fr'[t].res = "EAGAIN") <=> (count = Msgs)
               /\ fr'[t].res = "EAGAIN" => (pc'[t] = "ret" /\ UNCHANGED qvars)
     /\ \A t \in Threads :
          (pc[t] = "try" /\ fr[t].op = "try_receive" /\ pc'[t] # "try")
            => /\ (fr'[t].res = "EAGAIN") <=> (count = 0)
               /\ fr'[t].res = "EAGAIN" => (pc'[t] = "ret" /\ UNCHANGED qvars)
     /\ (isr = NoIsr /\ isr'.op = "try_send")
            => /\ (isr'.res = "EAGAIN") <=> (count = Msgs)
               /\ isr'.res = "EAGAIN" => UNCHANGED <<qvars, tvars>>
     /\ (isr = NoIsr /\ isr'.op = "try_receive")
            => /\ (isr'.res = "EAGAIN") <=> (count = 0)
               /\ isr'.res = "EAGAIN" => UNCHANGED <<qvars, tvars>>
     /\ \A t \in Threads :
          fr'[t].op \in TryOps
            => /\ pc'[t] \in {"try", "copy", "unlink", "wake", "ret"}
               /\ sched_state'[t] = "ready"
               /\ t \notin WakeupAllOf(send_list')
               /\ t \notin WakeupAllOf(receive_list')]_vars

\* A try_send on a full queue returns EAGAIN while a sender is blocked.
C5_Witness ==
  \E t \in Threads :
    /\ pc[t] = "ret" /\ fr[t].op = "try_send" /\ fr[t].res = "EAGAIN"
    /\ count = Msgs /\ Len(send_list) = 1

\* C6: a thread that called send on a full queue, and still is inside the
\* call when a slot is free again, goes on to return ok, under every
\* interleaving of the sender and the receiver.
C6_BlockedSenderReturns ==
  \A t \in Threads :
    (fr[t].op = "send" /\ pc[t] \in {"enroll", "susp", "wait"}
       /\ count < Msgs /\ ub = "none")
      ~> ((pc[t] = "ret" /\ fr[t].res = "ok") \/ ub # "none")

C8_AcceptsUpToMsgSize ==
  \A t \in Threads :
    (pc[t] = "ret" /\ fr[t].op \in SendOps /\ fr[t].nbytes \in 0..MsgSize)
      => fr[t].res # "EMSGSIZE"

\* C9: when a send of nbytes < MsgSize bytes returns, a slot of the ring
\* holds the nbytes bytes sent followed by MsgSize - nbytes zero bytes.
C9_ShortMessagePadded ==
  \A t \in Threads :
    (pc[t] = "ret" /\ fr[t].op = "send" /\ fr[t].nbytes < MsgSize)
      => \E k \in 1..Len(arrival) :
           Payload(mem, arrival[k].ix) =
             [j \in 1..MsgSize |-> IF j <= fr[t].nbytes THEN fr[t].b ELSE 0]

\* A failure for handler mode: EPERM, or the error value of the entry points
\* that return a priority or a set of flags.
FailsForHandlerMode(r) == r \in {"EPERM", "priority::error", "sig::error"}

\* C10: in handler mode every entry point other than wakeup, sig_raise,
\* try_send and try_receive fails with EPERM and changes no state of the
\* threads or of the queue.
C10_HandlerModeRefused ==
  [][(isr = NoIsr /\ isr'.op \in HandlerForbidden)
       => (FailsForHandlerMode(isr'.res) /\ UNCHANGED <<qvars, tvars>>)]_vars

\* Thread u has called t.cancel () while t was blocked, and the call has
\* returned ok.
Cancelled(t) ==
  \E u \in Threads :
    pc[u] = "ret" /\ fr[u].op = "cancel" /\ fr[u].target = t
      /\ fr[u].blocked /\ fr[u].res = "ok"

\* C11: a thread blocked in receive or sig_wait that another thread cancels
\* goes on to return EINTR from the blocking call.
C11_CancelInterrupts ==
  \A t \in Threads :
    (pc[t] = "wait" /\ fr[t].op \in {"receive", "sig_wait"} /\ Cancelled(t))
      ~> (pc[t] = "ret" /\ fr[t].res = "EINTR")

\* Thread t returns ETIMEDOUT from a timed call.
TimedOut(t) ==
  pc[t] = "ret" /\ fr[t].op \in TimedOps /\ fr[t].res = "ETIMEDOUT"

TimesOut(t) ==
  pc[t] = "time" /\ pc'[t] = "ret" /\ fr'[t].res = "ETIMEDOUT"

\* C13: a timed call does not return ETIMEDOUT while its condition holds:
\* timed_receive does not while a message is enqueued, timed_send does not
\* while a slot is free, timed_sig_wait does not while the flags it waits
\* for are raised.
C13_NoTimeoutWhenSatisfied ==
  [][\A t \in Threads :
       TimesOut(t)
         => /\ fr[t].op = "timed_receive" => count = 0
            /\ fr[t].op = "timed_send" => count = Msgs
            /\ fr[t].op = "timed_sig_wait"
                 => try_wait(sig_mask[t], fr[t].mask, fr[t].mode,
                             fr[t].oflags).res = "EAGAIN"]_vars

\* Thread t completes the call op in this step; an interrupt handler does.
Calls(t, op) == pc[t] = "idle" /\ fr'[t].op = op
IsrCalls(op) == isr = NoIsr /\ isr'.op = op

\* The flags of thread u after a sig_raise (m) that returned ok: the old
\* flags with the bits of m added, the same after a second sig_raise (m),
\* and the flags of the other threads as they were.
RaisedBy(u, m) ==
  /\ sig_mask'[u] = sig_mask[u] \cup m
  /\ sig_mask[u] \subseteq sig_mask'[u]
  /\ sig_raise(sig_mask'[u], m).mask = sig_mask'[u]
  /\ \A v \in Threads \ {u} : sig_mask'[v] = sig_mask[v]

\* C14: sig_raise (m) with m # 0 leaves sig_mask = old | m, clears no bit,
\* and a second sig_raise (m) changes nothing more.
C14_RaiseAccumulates ==
  [][/\ \A t \in Threads :
          (Calls(t, "sig_raise") /\ fr'[t].res = "ok")
            => RaisedBy(fr'[t].target, fr'[t].mask)
     /\ (IsrCalls("sig_raise") /\ isr'.res = "ok")
            => RaisedBy(isr'.target, isr'.mask)]_vars

\* A sig_raise of bits that were all raised before, beside another raised
\* bit, has returned: the flags are what they were.
C14_Witness ==
  \E t \in Threads :
    /\ pc[t] = "ret" /\ fr[t].op = "sig_raise" /\ fr[t].res = "ok"
    /\ fr[t].mask \subseteq fr[t].oflags /\ fr[t].oflags # fr[t].mask
    /\ sig_mask[fr[t].target] = fr[t].oflags

\* What a second u.sig_get (m, mode) returns right after this step.
SecondGet(u, m, mode) == sig_get(sig_mask'[u], m, mode).ret

\* C15: after sig_get (m, clear) with m # 0, a second sig_get (m, clear)
\* with no sig_raise in between returns 0.
C15_SecondGetEmpty ==
  [][\A t \in Threads :
       (Calls(t, "sig_get") /\ "clear" \in fr'[t].mode /\ fr'[t].mask # {})
         => SecondGet(fr'[t].target, fr'[t].mask, fr'[t].mode) = {}]_vars

\* A sig_get (m, clear) has returned raised bits of m and left a raised bit
\* outside m.
C15_Witness ==
  \E t \in Threads :
    /\ pc[t] = "ret" /\ fr[t].op = "sig_get" /\ "clear" \in fr[t].mode
    /\ fr[t].mask # {} /\ fr[t].ret # {}
    /\ sig_mask[fr[t].target] # {}
    /\ sig_mask[fr[t].target] \cap fr[t].mask = {}

\* C15 as stated, for every m, m = 0 included.
C15_AnyMask ==
  [][\A t \in Threads :
       (Calls(t, "sig_get") /\ "clear" \in fr'[t].mode)
         => SecondGet(fr'[t].target, fr'[t].mask, fr'[t].mode) = {}]_vars

\* Thread t makes an attempt of the signal wait op in this step.
SigAttempt(t, op) == pc[t] = "try" /\ fr[t].op = op /\ pc'[t] # "try"

SigSucceeds(t) ==
  /\ \/ SigAttempt(t, "sig_wait")
     \/ SigAttempt(t, "try_sig_wait")
  /\ fr'[t].res = "ok"

\* C17: sig_wait and try_sig_wait with mask # 0 and mode any succeed only
\* when a bit of mask is raised, and then clear no bit outside mask.
C17_WaitAny ==
  [][\A t \in Threads :
       (SigSucceeds(t) /\ "any" \in fr[t].mode /\ fr[t].mask # {})
         => /\ sig_mask[t] \cap fr[t].mask # {}
            /\ sig_mask[t] \ fr[t].mask \subseteq sig_mask'[t]]_vars

\* C18: a successful sig_wait or try_sig_wait whose mode lacks clear leaves
\* sig_mask as it was.
C18_ClearOnlyOnRequest ==
  [][\A t \in Threads :
       (SigSucceeds(t) /\ "clear" \notin fr[t].mode)
         => sig_mask' = sig_mask]_vars

\* C19: try_sig_wait makes one attempt with the test sig_wait makes and
\* returns at once, ok when the test holds and EAGAIN when it does not; on
\* EAGAIN the flags and out are as they were; the caller is never suspended.
C19_TrySigWaitNeverBlocks ==
  [][/\ \A t \in Threads :
          SigAttempt(t, "try_sig_wait")
            => /\ pc'[t] = "ret"
               /\ fr'[t].res \in {"ok", "EAGAIN"}
               /\ (fr'[t].res = "ok")
                    <=> (try_wait(sig_mask[t], fr[t].mask, fr[t].mode,
                                  fr[t].oflags).res = "ok")
               /\ fr'[t].res = "EAGAIN"
                    => /\ sig_mask' = sig_mask
                       /\ fr'[t].oflags = fr[t].oflags
     /\ \A t \in Threads :
          fr'[t].op = "try_sig_wait"
            => /\ pc'[t] \in {"try", "ret"}
               /\ sched_state'[t] = "ready"]_vars

\* A try_sig_wait for all of two bits, of which one is raised, has returned
\* EAGAIN: the raised bit is still raised and out was not written.
C19_Witness ==
  \E t \in Threads :
    /\ pc[t] = "ret" /\ fr[t].op = "try_sig_wait" /\ fr[t].res = "EAGAIN"
    /\ "all" \in fr[t].mode /\ fr[t].mask = SigBits
    /\ sig_mask[t] # {} /\ fr[t].oflags = Stale
    /\ sched_state[t] = "ready"

\* The flags thread t waits for in sig_wait are raised.
Satisfied(t) ==
  try_wait(sig_mask[t], fr[t].mask, fr[t].mode, fr[t].oflags).res = "ok"

\* C20: a thread inside sig_wait whose flags are raised after its failed
\* attempt goes on to return ok, under every interleaving of the waiter and
\* the thread that raises them.
C20_RaisedWaiterReturns ==
  \A t \in Threads :
    (fr[t].op = "sig_wait" /\ pc[t] \in {"susp", "wait"} /\ Satisfied(t))
      ~> (pc[t] = "ret" /\ fr[t].res = "ok")

\* Thread t completes u.exit (v), or returns from its entry function, in
\* this step.
ExitsOn(t, u) ==
  /\ pc[t] = "idle" /\ fr'[t].op \in {"exit", "return"}
  /\ fr'[t].target = u

\* Thread t returns from join in this step.
JoinReturns(t) == pc[t] = "try" /\ fr[t].op = "join" /\ pc'[t] = "ret"

\* C21: an exit (v2) on a thread that is terminated changes neither its
\* recorded exit value nor any thread's state, and does not append it to the
\* terminated list again; a join that returns afterwards hands out the
\* recorded value, which is the one of the first exit.
C21_ExitIdempotent ==
  [][\A t \in Threads, u \in Threads :
       /\ (ExitsOn(t, u) /\ sched_state[u] = "terminated")
            => /\ func_result'[u] = func_result[u]
               /\ sched_state' = sched_state
               /\ terminated_list' = terminated_list
       /\ (JoinReturns(t) /\ fr[t].target = u /\ fr[t].exit_ptr)
            => /\ fr'[t].out = func_result[u]
               /\ func_result'[u] = func_result[u]]_vars

\* A second exit, with another value, has returned on a terminated thread
\* that is on the terminated list once.
C21_Witness ==
  \E t \in Threads, u \in Threads :
    /\ t # u
    /\ pc[t] = "ret" /\ fr[t].op = "exit" /\ fr[t].target = u
    /\ fr[t].was = "terminated" /\ sched_state[u] = "terminated"
    /\ fr[t].value # func_result[u] /\ func_result[u] \in Values
    /\ terminated_list = <<u>>

\* C22: a join returns only while its target is terminated, with ok, and
\* an attempt that finds the target not terminated suspends the caller; on
\* return the caller's variable holds the target's exit value when exit_ptr
\* is not null and is untouched when it is null; the exit value of a thread
\* is the value passed to the exit that terminated it, or returned by its
\* entry function.
C22_JoinWaitsForExit ==
  [][\A t \in Threads :
       LET u == fr[t].target IN
       /\ JoinReturns(t)
            => /\ sched_state[u] = "terminated"
               /\ fr'[t].res = "ok"
               /\ fr'[t].out =
                    (IF fr[t].exit_ptr THEN func_result[u] ELSE fr[t].out)
       /\ (pc[t] = "try" /\ fr[t].op = "join" /\ pc'[t] # "try"
             /\ sched_state[u] # "terminated")
            => pc'[t] = "susp"
       /\ (pc[t] = "susp" /\ fr[t].op = "join" /\ pc'[t] # "susp")
            => (pc'[t] = "wait" /\ sched_state'[t] = "suspended")
       /\ \A w \in Threads :
            (ExitsOn(t, w) /\ sched_state[w] # "terminated")
              => /\ sched_state'[w] = "terminated"
                 /\ func_result'[w] = fr'[t].value]_vars

\* A join on another thread had to wait and has returned ok with the value
\* that thread returned from its entry function.
C22_Witness ==
  \E t \in Threads, u \in Threads :
    /\ t # u
    /\ pc[t] = "ret" /\ fr[t].op = "join" /\ fr[t].target = u
    /\ fr[t].res = "ok" /\ fr[t].exit_ptr /\ fr[t].blocked
    /\ sched_state[u] = "terminated"
    /\ pc[u] = "ret" /\ fr[u].op = "return" /\ fr[u].value = fr[t].out

\* C23: a thread that calls join on itself does not go on to suspend: the
\* call returns EDEADLK.
C23_SelfJoinRefused ==
  [][\A t \in Threads :
       (pc[t] = "try" /\ fr[t].op = "join" /\ fr[t].target = t
          /\ pc'[t] # "try")
         => (pc'[t] = "ret" /\ fr'[t].res = "EDEADLK")]_vars

\* The slots in ascending order.
AllSlots == [k \in 1..Msgs |-> k - 1]

\* C24: a reset, whatever the queue held, returns ok and leaves count 0, the
\* ring empty and the free list with every slot once in ascending order;
\* with the ring empty a try_receive attempt returns EAGAIN, and with fewer
\* than Msgs messages a try_send attempt takes a slot, so that Msgs try_send
\* calls succeed after a reset.
C24_ResetReinitialises ==
  [][\A t \in Threads :
       /\ Calls(t, "reset")
            => /\ fr'[t].res = "ok"
               /\ count' = 0 /\ head' = no_index
               /\ FreeWalk(mem', first_free', Msgs + 1) = AllSlots
       /\ (pc[t] = "try" /\ fr[t].op = "try_receive" /\ pc'[t] # "try"
             /\ head = no_index)
            => (pc'[t] = "ret" /\ fr'[t].res = "EAGAIN")
       /\ (pc[t] = "try" /\ fr[t].op = "try_send" /\ pc'[t] # "try"
             /\ count < Msgs)
            => (pc'[t] = "copy" /\ count' = count + 1)]_vars

\* A reset has returned on a queue that was full, with a sender waiting: the
\* sender is ready again and the free list is whole.
C24_Witness ==
  \E t \in Threads, u \in Threads :
    /\ pc[t] = "ret" /\ fr[t].op = "reset" /\ fr[t].res = "ok"
    /\ pc[u] = "wait" /\ fr[u].op = "send" /\ sched_state[u] = "ready"
    /\ count = 0 /\ head = no_index /\ FreeList = AllSlots
    /\ \E o \in 0..(prev_array - 1) : mem[o] \in Bytes

\* Thread r has returned from a reset that found thread t on a wait list.
WokenByReset(r, t) ==
  pc[r] = "ret" /\ fr[r].op = "reset" /\ t \in fr[r].woken

\* Thread t is blocked, enrolled once on the list of its call and not on
\* the other one.
EnrolledOnce(t) ==
  /\ pc[t] = "wait" /\ sched_state[t] = "suspended"
  /\ Len(SelectSeq(receive_list, LAMBDA w : w = t)) = 1
  /\ Len(SelectSeq(send_list, LAMBDA w : w = t)) = 0

\* C25: a receiver that a reset found on the receivers list and woke is
\* given no message; it tries again, finds the queue empty and blocks
\* again, enrolled on the receivers list once.
C25_ResetWakesWaiters ==
  \A r \in Threads, t \in Threads :
    (WokenByReset(r, t) /\ fr[t].op = "receive") ~> EnrolledOnce(t)

\* C26: a destroyed queue has passed its storage to delete[] exactly when it
\* had allocated it itself, that is when the attributes gave no storage.
C26_DeallocatesIffOwned ==
  obj.state = "destroyed"
    => ((obj.queue_addr \in obj.deleted) <=> (obj.attr_addr = nullptr))

\* C27: no queue is constructed with msgs = 0 or msg_size_bytes = 0, and a
\* queue of capacity 0 never holds a message.
C27_ZeroSizeRejected ==
  obj.state \in {"live", "destroyed"}
    => /\ obj.msgs > 0 /\ obj.msg_size > 0
       /\ obj.count <= obj.msgs

\* C28: the priority stored on a thread that is ready or suspended is never
\* the none sentinel nor the error sentinel.
C28_NoSentinelPriority ==
  \A u \in Threads :
    sched_state[u] \in {"ready", "suspended"}
      => sched_prio[u] \notin {"none", "error"}

\* The number of nodes of thread t linked on a list.
Links(list, t) == Len(SelectSeq(list, LAMBDA w : w = t))

\* C29: a thread has at most one node linked, on one of the two lists, and
\* only from its enrolment until it runs again after the suspension: it is
\* linked on no list when it makes an attempt, looks at the clock, returns
\* or is outside a call.
C29_NoDoubleEnrollment ==
  \A t \in Threads :
    /\ Links(send_list, t) + Links(receive_list, t) <= 1
    /\ Links(send_list, t) + Links(receive_list, t) = 1
         => /\ pc[t] \in {"susp", "wait"}
            /\ (Links(send_list, t) = 1) = OnSendList(fr[t].op)

\* A timed receive has timed out and its thread is on no list, while the
\* other thread is blocked on the receivers list.
C29_Witness ==
  \E t \in Threads, u \in Threads :
    /\ t # u
    /\ pc[t] = "ret" /\ fr[t].op = "timed_receive"
    /\ fr[t].res = "ETIMEDOUT" /\ fr[t].until > 0
    /\ Links(send_list, t) + Links(receive_list, t) = 0
    /\ pc[u] = "wait" /\ receive_list = <<u>>

\* Thread t takes this step.
Actor(t) == pc'[t] # pc[t] \/ fr'[t] # fr[t]

\* The lifecycle state of thread u before a step: a ready thread that takes
\* the step itself holds the processor and is running.
Before(u) ==
  IF sched_state[u] = "ready" /\ Actor(u) THEN "running" ELSE sched_state[u]

\* The transitions of the state table.
StateTable ==
  {<<"ready", "running">>, <<"running", "suspended">>,
   <<"suspended", "ready">>, <<"running", "terminated">>,
   <<"terminated", "destroyed">>}
    \cup {<<a, "inactive">> :
            a \in {"inactive", "ready", "running", "suspended", "terminated"}}

\* C30: every change of a thread's lifecycle state is a transition of the
\* state table; in particular only a running thread becomes terminated.
C30_LifecycleTable ==
  [][\A u \in Threads :
       sched_state'[u] # sched_state[u]
         => <<Before(u), sched_state'[u]>> \in StateTable]_vars

\* ------------------------------------------------------------ ring and slots

\* The ring is closed and doubly linked: the walk along next from the head
\* visits cnt distinct slots and comes back to the head, and prev undoes
\* next.
RingClosed ==
  /\ head \in Slots
  /\ Len(Ring) = count
  /\ Cardinality({Ring[k] : k \in 1..Len(Ring)}) = Len(Ring)
  /\ Next_(mem, Ring[Len(Ring)]) = head
  /\ \A k \in 1..Len(Ring) :
       /\ Prev(mem, Next_(mem, Ring[k])) = Ring[k]
       /\ Next_(mem, Prev(mem, Ring[k])) = Ring[k]

\* C31: with calls running one at a time, whatever queue operations have
\* run, the ring is well formed: an empty queue has head no_index; otherwise
\* the walk along next from the head visits exactly count distinct slots and
\* returns to the head, prev is the inverse of next, the priorities along
\* the walk do not increase, and the head is the oldest message of the
\* highest priority.
C31_RingWellFormed ==
  /\ count = 0 => head = no_index
  /\ count # 0 =>
       /\ RingClosed
       /\ \A k \in 1..(Len(Ring) - 1) :
            Prio(mem, Ring[k]) >= Prio(mem, Ring[k + 1])
       /\ Due(arrival, head)

\* A receive has taken the head out of a ring of two: the message left is
\* a ring of one, and its slot is not the first of the region.
C31_Witness ==
  /\ count = 1 /\ head = 1 /\ Ring = <<1>>
  /\ \E t \in Threads :
       pc[t] = "ret" /\ fr[t].op \in RecvOps /\ fr[t].res = "ok"

\* The slots on the free list and the slots of the ring.
FreeSlots == {FreeList[k] : k \in 1..Len(FreeList)} \cap Slots
RingSlots == {Ring[k] : k \in 1..Len(Ring)}

\* C32: in every reachable state, also when an interrupt handler's try_send
\* inserts a message of higher priority, and so changes the head, while a
\* receive is between the critical section that read the head and the one
\* that unlinks it and frees the slot, no slot is both on the free list and
\* in the ring.
C32_FreeOrQueued == ub = "none" => FreeSlots \cap RingSlots = {}

\* A thread and an interrupt handler receive from the same queue, the
\* handler preempting the thread between its critical sections; the handler
\* sends the messages, as long as count is in range.
SendInRange == count \in 0..Msgs /\ IsrTrySend(FALSE, FullLens)

NextReceivers ==
  \/ CallReceive(Receiver, FALSE, {"try_receive"}, FullLens)
  \/ TryReceiveHead(Receiver, FALSE)
  \/ TryReceiveCopy(Receiver, FALSE)
  \/ TryReceiveUnlink(Receiver, FALSE)
  \/ TryReceiveWake(Receiver, FALSE)
  \/ Return(Receiver, FALSE)
  \/ SendInRange
  \/ IsrTryReceive(FALSE, FullLens)
  \/ IsrReturn

SpecReceivers == Init /\ [][NextReceivers]_vars

\* The slots that hold an enqueued message.
Enqueued == {arrival[k].ix : k \in 1..Len(arrival)}

\* C33: under every interleaving of two receivers, here a thread and an
\* interrupt handler's try_receive, a message is delivered to at most one
\* successful receive and count never goes below 0: the receive that unlinks
\* and frees a slot finds its message still enqueued.
C33_DeliveredOnce ==
  [][\A t \in Threads :
       pc[t] = "unlink" /\ pc'[t] = "wake" =>
         /\ MsgIx(fr[t].ptr) \in Enqueued
         /\ count' >= 0]_vars

\* The priorities the message of slot ix was sent with.
SentAs(a, ix) == {a[k].prio : k \in Places(a, ix)}

\* C34: under every interleaving, also when the receive runs after a send
\* has linked its slot and incremented count but before it copied the
\* payload, the message a receive copies out carries the complete payload
\* and the priority its sender supplied.
C34_CompleteMessage ==
  [][\A t \in Threads :
       ThreadReceives(t) =>
         /\ \E b \in Bytes : fr'[t].buf = [k \in 1..MsgSize |-> b]
         /\ fr'[t].oprio \in SentAs(arrival, MsgIx(fr[t].ptr))]_vars

\* Receive buffers of the message size and one byte larger.
LargeLens == {MsgSize, MsgSize + 1}

\* Calls run one at a time; the receivers pass buffers that are as large as
\* a message or larger.
NextLarge ==
  \/ \E t \in Threads : CallSend(t, TRUE, {"try_send"}, FullLens)
  \/ \E t \in Threads : TrySendLink(t, TRUE)
  \/ \E t \in Threads : TrySendCopy(t, TRUE)
  \/ \E t \in Threads : TrySendWake(t, TRUE)
  \/ \E t \in Threads :
       CallReceive(t, TRUE, {"receive", "try_receive"}, LargeLens)
  \/ \E t \in Threads : TryReceiveHead(t, TRUE)
  \/ \E t \in Threads : TryReceiveCopy(t, TRUE)
  \/ \E t \in Threads : TryReceiveUnlink(t, TRUE)
  \/ \E t \in Threads : TryReceiveWake(t, TRUE)
  \/ \E t \in Threads : Enroll(t, TRUE)
  \/ \E t \in Threads : Suspend(t, TRUE)
  \/ \E t \in Threads : Resume(t, TRUE)
  \/ \E t \in Threads : Return(t, TRUE)

SpecLarge == Init /\ [][NextLarge]_vars

\* C35: a receive with a buffer of nbytes >= MsgSize bytes that finds a
\* message copies exactly MsgSize bytes, the payload of the head slot, into
\* the buffer: it reads no byte of another slot or of the linkage arrays
\* and leaves the bytes of the buffer beyond MsgSize as they were.
C35_CopiesOneMessage ==
  [][\A t \in Threads :
       ThreadReceives(t) =>
         fr'[t].buf = Payload(mem, MsgIx(fr[t].ptr))]_vars

\* The signal flags of every thread but u stay as they are.
OthersKeep(u) == \A v \in Threads \ {u} : sig_mask'[v] = sig_mask[v]

\* C36: sig_clear (m) and sig_get (m, clear) with m # 0 change only the
\* bits of m, the flags afterwards being the old ones without m, and report
\* the value before the clearing: sig_clear the whole old flags in *oflags,
\* sig_get the old flags masked with m.  sig_get without clear, and
\* sig_raise (0) and sig_clear (0), which fail with EINVAL, leave the flags
\* as they are.
C36_SignalFrame ==
  [][\A t \in Threads :
       LET u == fr'[t].target
           m == fr'[t].mask
       IN /\ Calls(t, "sig_clear") /\ m # {} =>
               /\ sig_mask'[u] = sig_mask[u] \ m /\ OthersKeep(u)
               /\ fr'[t].res = "ok" /\ fr'[t].oflags = sig_mask[u]
          /\ Calls(t, "sig_get") /\ m # {} /\ "clear" \in fr'[t].mode =>
               /\ sig_mask'[u] = sig_mask[u] \ m /\ OthersKeep(u)
               /\ fr'[t].ret = sig_mask[u] \cap m
          /\ Calls(t, "sig_get") /\ "clear" \notin fr'[t].mode =>
               sig_mask' = sig_mask
          /\ (Calls(t, "sig_raise") \/ Calls(t, "sig_clear")) /\ m = {} =>
               fr'[t].res = "EINVAL" /\ sig_mask' = sig_mask]_vars

\* A sig_clear of one bit of a thread that has both bits raised: the other
\* bit stays, and the caller is told both were raised.
C36_Witness ==
  \E t \in Threads :
    /\ pc[t] = "ret" /\ fr[t].op = "sig_clear" /\ fr[t].res = "ok"
    /\ fr[t].mask = {0} /\ fr[t].oflags = SigBits
    /\ sig_mask[fr[t].target] = SigBits \ {0}

\* ------------------------------------------------------------ idle thread

\* Thread t calls exit (v) on itself.
ExitSelf(t, sq) ==
  /\ pc[t] = "idle" /\ CanRun(t, sq)
  /\ \E v \in Values : ExitCall(t, t, v, "exit", sq)

\* Thread::~Thread (lines 251-267), which node->thread_._destroy () of
\* os_idle ends in: the state of the thread afterwards.
thread_destroy(st) == "destroyed"

\* The test of the inner loop of os_idle (os-idle.cpp, line 72);
\* IdleFindsNone never finds a thread to destroy.
IdleFindsNone(tl) == FALSE
IdleFinds(tl) == tl # <<>>

IdleRuns == isr = NoIsr /\ ub = "none"

\* os_idle lowers its own priority (os-idle.cpp, lines 61-68), to idle or to
\* one step below, as the build says.
IdleStart ==
  /\ IdleRuns /\ os_idle.pc = "start"
  /\ \E below \in BOOLEAN :
       os_idle' = [os_idle EXCEPT
                     !.pc = "test",
                     !.prio = IF below THEN "idle-1" ELSE "idle"]
  /\ UNCHANGED <<qvars, sched_state, wakeup_reason, sig_mask, sched_prio,
                 func_result, terminated_list, obj, pc, fr, cur, isr, now,
                 ub, arrival>>

\* while (!terminated_threads_list_.empty ()) (line 72), outside the
\* critical section: on to the unlinking, or out of the inner loop.
IdleTest ==
  /\ IdleRuns /\ os_idle.pc = "test"
  /\ os_idle' = [os_idle EXCEPT
                   !.pc = IF IdleFinds(terminated_list) THEN "unlink"
                          ELSE "wfi",
                   !.empty = ~IdleFinds(terminated_list)]
  /\ UNCHANGED <<qvars, sched_state, wakeup_reason, sig_mask, sched_prio,
                 func_result, terminated_list, obj, pc, fr, cur, isr, now,
                 ub, arrival>>

\* The critical section of lines 75-80: the head of the list is unlinked.
\* head () of an empty list is no node.
IdleUnlink ==
  /\ IdleRuns /\ os_idle.pc = "unlink"
  /\ IF terminated_list = <<>>
     THEN /\ ub' = "wild"
          /\ UNCHANGED <<terminated_list, os_idle>>
     ELSE /\ os_idle' = [os_idle EXCEPT !.pc = "destroy",
                                        !.node = Head(terminated_list)]
          /\ terminated_list' = Tail(terminated_list)
          /\ UNCHANGED ub
  /\ UNCHANGED <<qvars, sched_state, wakeup_reason, sig_mask, sched_prio,
                 func_result, obj, pc, fr, cur, isr, now, arrival>>

\* node->thread_._destroy () (line 81), outside the critical section.
IdleDestroy ==
  /\ IdleRuns /\ os_idle.pc = "destroy"
  /\ LET u == os_idle.node IN
     /\ sched_state' =
          [sched_state EXCEPT ![u] = thread_destroy(sched_state[u])]
     /\ os_idle' = [os_idle EXCEPT !.pc = "yield", !.node = none,
                                   !.reaped[u] = @ + 1]
  /\ UNCHANGED <<qvars, wakeup_reason, sig_mask, sched_prio, func_result,
                 terminated_list, obj, pc, fr, cur, isr, now, ub, arrival>>

\* port::scheduler::_wait_for_interrupt () (line 87) returns with the next
\* interrupt.
IdleWait ==
  /\ IdleRuns /\ os_idle.pc = "wfi"
  /\ os_idle' = [os_idle EXCEPT !.pc = "yield"]
  /\ UNCHANGED <<qvars, sched_state, wakeup_reason, sig_mask, sched_prio,
                 func_result, terminated_list, obj, pc, fr, cur, isr, now,
                 ub, arrival>>

\* this_thread::yield () (lines 83 and 89) returns, both times to the test
\* of the inner loop.
IdleYield ==
  /\ IdleRuns /\ os_idle.pc = "yield"
  /\ os_idle' = [os_idle EXCEPT !.pc = "test"]
  /\ UNCHANGED <<qvars, sched_state, wakeup_reason, sig_mask, sched_prio,
                 func_result, terminated_list, obj, pc, fr, cur, isr, now,
                 ub, arrival>>

IdleStep ==
  \/ IdleStart
  \/ IdleTest
  \/ IdleUnlink
  \/ IdleDestroy
  \/ IdleWait
  \/ IdleYield

\* The threads end, by exit or by returning from their functions, and kill
\* one another, and the idle thread runs in between, at any point.
NextIdle ==
  \/ \E t \in Threads : ExitSelf(t, FALSE)
  \/ \E t \in Threads : InvokeWithExit(t, FALSE)
  \/ \E t \in Threads : Kill(t, FALSE)
  \/ \E t \in Threads : Return(t, FALSE)
  \/ IdleStep

SpecIdle == Init /\ [][NextIdle]_vars

\* C37: destroyed is a terminal state: kill () moves a thread in any state
\* other than destroyed to inactive, and once the state of a thread is
\* destroyed no later kill () or exit () changes it.
C37_DestroyedTerminal ==
  [][\A t \in Threads :
       LET u == fr'[t].target IN
       /\ Calls(t, "kill") /\ sched_state[u] # "destroyed" =>
            sched_state'[u] = "inactive"
       /\ (Calls(t, "kill") \/ Calls(t, "exit"))
            /\ sched_state[u] = "destroyed" =>
              sched_state'[u] = "destroyed"]_vars

\* The functions that write sched_state_ or sig_mask_ within the scope of a
\* critical section that disables the interrupts: sig_raise (line 618),
\* sig_get (line 648), sig_clear (line 678) and the three waits around
\* _try_wait (lines 763, 798, 851).  exit (lines 571-572), kill (line 600)
\* and the destructor (line 266) open none.
CriticalWrites ==
  {"sig_raise", "sig_get", "sig_clear", "sig_wait", "try_sig_wait",
   "timed_sig_wait"}

\* The functions of the thread that write the two fields; return is the
\* exit at the end of the entry function, destroy the destructor.
FieldWriters == CriticalWrites \cup {"exit", "return", "kill", "destroy"}

\* This step writes the state or the signal flags of a thread.
FieldWritten == sched_state' # sched_state \/ sig_mask' # sig_mask

\* C38: every write to the lifecycle state of a thread and to its signal
\* flags happens while a critical section is held: exit, kill, the
\* destructor, sig_raise, sig_clear, sig_get and the waits never modify
\* these fields with the interrupts enabled.
C38_WritesInCritical ==
  [][/\ \A t \in Threads :
          pc'[t] # pc[t] /\ fr'[t].op \in FieldWriters /\ FieldWritten =>
            fr'[t].op \in CriticalWrites
     /\ os_idle.pc = "destroy" /\ FieldWritten =>
          "destroy" \in CriticalWrites]_vars

\* The idle thread keeps being scheduled: it runs whenever no interrupt
\* handler does.
FairIdle == SpecIdle /\ WF_vars(IdleStep)

\* Thread u is on the terminated list; it has ended itself, with exit or by
\* returning from its function.
Listed(u) == \E k \in 1..Len(terminated_list) : terminated_list[k] = u
Exited(u) ==
  pc[u] = "ret" /\ fr[u].op \in {"exit", "return"} /\ fr[u].target = u

\* C39: with the idle thread scheduled again and again, every thread put on
\* the terminated list is in the end taken off it and destroyed, and no
\* thread is destroyed more than once; a thread that has ended itself takes
\* no step any more; and the idle thread waits for an interrupt only after
\* it found the list empty.
C39_IdleReaps ==
  /\ \A u \in Threads :
       Listed(u) ~> (~Listed(u) /\ os_idle.reaped[u] = 1)
  /\ [](\A u \in Threads : os_idle.reaped[u] <= 1)
  /\ [][\A u \in Threads :
         Exited(u) => pc'[u] = pc[u] /\ fr'[u] = fr[u]]_vars
  /\ [](os_idle.pc = "wfi" => os_idle.empty)

\* Both threads have ended and were destroyed, one after the other, and the
\* idle thread, finding the list empty, waits for an interrupt.
C39_Witness ==
  /\ os_idle.pc = "wfi" /\ terminated_list = <<>>
  /\ \A u \in Threads : Exited(u) /\ os_idle.reaped[u] = 1
  /\ sched_state = [u \in Threads |-> "destroyed"]

\* C40: after construction the prev, next and priority arrays of the queue
\* lie in its own storage, right after the msgs * msg_size payload bytes:
\* prev at the storage address plus msgs * msg_size, next after prev, prio
\* after next, whether the caller gave the storage or the queue allocated
\* it.
C40_ArraysInStorage ==
  obj.state = "live" /\ ub = "none" /\ obj.msgs > 0 /\ obj.msg_size > 0 =>
    /\ obj.prev_array = obj.queue_addr + obj.msgs * obj.msg_size
    /\ obj.next_array = obj.prev_array + obj.msgs
    /\ obj.prio_array = obj.next_array + obj.msgs

====
